---------------------------- MODULE Spec2Model ----------------------------
(***************************************************************************)
(* A model of the OpenTitan USB device driver (class OpenTitanUsbdev).     *)
(*                                                                         *)
(* Representation.  A 32-bit register is the set of the positions of its   *)
(* set bits (a subset of 0..31): `a & b` is intersection, `a | b` union,   *)
(* `~a` the complement in 0..31 and `1u << n` the singleton {n}.  Numbers  *)
(* are converted to and from bit sets by ToBits / FieldOf, which do the    *)
(* binary arithmetic.                                                      *)
(*                                                                         *)
(* The driver is a set of methods over a memory-mapped register block.     *)
(* Registers that are plain storage live in `regs` and `configIn`; the     *)
(* registers with hardware side effects (usbStatus, availableSetupBuffer,  *)
(* availableOutBuffer, receiveBuffer, inSent) are backed by the hardware   *)
(* state avSetup, avOut, rxFifo and regs.inSent.                           *)
(***************************************************************************)
EXTENDS Naturals, Integers, Sequences, FiniteSets, TLC

VARIABLES
    regs,       \* the storage registers: register name -> bit set
    configIn,   \* configIn[MaxEndpoints]: endpoint -> bit set
    avSetup,    \* hardware Available SETUP Buffer FIFO (sequence of buffer ids)
    avOut,      \* hardware Available OUT Buffer FIFO (sequence of buffer ids)
    rxFifo,     \* hardware receive FIFO (sequence of receiveBuffer words)
    hwCap,      \* the FIFO capacities of the hardware instance: [setup, out, rx]
    op,         \* the driver call (or hardware step) made last, with its arguments
    ret,        \* the value returned by the last driver call
    written,    \* the register writes of the last driver call, in program order
    outp,       \* the reference (output) parameters of the driver's methods
    devmem,     \* packet buffer memory: byte offset -> byte (absent = 0)
    data,       \* the caller's memory: [tx, rx], each byte offset -> byte
    hist        \* history of the run (what was configured, counters)

vars == <<regs, configIn, avSetup, avOut, rxFifo, hwCap, op, ret, written, outp,
          devmem, data, hist>>

hwVars == <<avSetup, avOut, rxFifo, hwCap>>

memVars == <<devmem, data>>

(***************************************************************************)
(* Program constants.                                                      *)
(***************************************************************************)
MaxPacketLen == 64

NumBuffers == 32

MaxEndpoints == 12

(***************************************************************************)
(* 32-bit values as bit sets.                                              *)
(***************************************************************************)
AllBits == 0..31

Pow2(n) == 2 ^ n

\* The bit set of the number n (n < 2^31), truncated to 32 bits.
ToBits(n) == {i \in AllBits : i < 31 /\ (n \div Pow2(i)) % 2 = 1}

\* (w & (mask of `width` bits at `lo`)) >> lo, as a number.
RECURSIVE FieldSum(_, _, _)
FieldSum(w, lo, width) ==
    IF width = 0 THEN 0
    ELSE (IF lo + width - 1 \in w THEN Pow2(width - 1) ELSE 0)
         + FieldSum(w, lo, width - 1)

FieldOf(w, lo, width) == FieldSum(w, lo, width)

\* n << k as a 32-bit value.
ShiftLeft(n, k) == {i + k : i \in ToBits(n)} \cap AllBits

BitNot(w) == AllBits \ w

\* reg | (flag ? mask : 0u): the bit is set but never cleared.
SetOrClearNeverClears(reg, mask, flag) == reg \cup (IF flag THEN mask ELSE {})

\* (reg & ~mask) | (flag ? mask : 0u)
SetOrClear(reg, mask, flag) == (reg \cap BitNot(mask)) \cup (IF flag THEN mask ELSE {})

(***************************************************************************)
(* The register block.                                                     *)
(***************************************************************************)
RegNames ==
    {"interruptState", "interruptEnable", "interruptTest", "alertTest",
     "usbControl", "endpointOutEnable", "endpointInEnable",
     "receiveEnableSetup", "receiveEnableOut", "setNotAcknowledgeOut",
     "inSent", "outStall", "inStall", "outIsochronous", "inIsochronous",
     "outDataToggle", "inDataToggle", "phyPinsSense", "phyPinsDrive",
     "phyConfig"}

\* UsbControlField::ResumeLinkActive taken for Enable.
UsbControlEnableWrong == {1}

\* UsbControlField
UsbControlEnable == {0}
UsbControlResumeLinkActive == {1}
UsbControlDeviceAddress == 16..22

\* The state of the registers after a reset of the device.
ResetRegs == [r \in RegNames |-> {}]
ResetConfigIn == [e \in 0..(MaxEndpoints - 1) |-> {}]

NoOutp == [ep |-> 0, buf_num |-> 0, size |-> 0, is_setup |-> FALSE, buf_avail |-> {}]

(***************************************************************************)
(* The hardware FIFOs behind usbStatus, availableSetupBuffer,              *)
(* availableOutBuffer and receiveBuffer.  Their capacities belong to the   *)
(* hardware instance; the depth fields of usbStatus bound what an instance *)
(* can report.                                                             *)
(***************************************************************************)
\* UsbStatusField::AvailableSetupDepth is 3 bits wide.
MaxSetupDepth == 7

\* UsbStatusField::AvailableOutDepth is 4 bits wide.
MaxOutDepth == 15

\* UsbStatusField::ReceiveDepth is 4 bits wide.
MaxReceiveDepth == 15

\* The FIFO depths of the OpenTitan usbdev instance.
OpenTitanCap == [setup |-> 4, out |-> 8, rx |-> 8]

\* The instances the model runs on: the smallest, OpenTitan's, and the
\* deepest one whose depths the fields of usbStatus can hold.
HwCaps ==
    {[setup |-> 1, out |-> 2, rx |-> 2],
     OpenTitanCap,
     [setup |-> MaxSetupDepth, out |-> MaxOutDepth, rx |-> MaxReceiveDepth]}

\* A read of usbStatus (the Frame, HostLost, LinkState and Sense fields read 0).
UsbStatus(setupQ, outQ, rxQ, cap) ==
    ShiftLeft(Len(outQ), 16)
    \cup ShiftLeft(Len(setupQ), 20)
    \cup (IF Len(outQ) >= cap.out THEN {23} ELSE {})
    \cup ShiftLeft(Len(rxQ), 24)
    \cup (IF Len(setupQ) >= cap.setup THEN {30} ELSE {})
    \cup (IF Len(rxQ) = 0 THEN {31} ELSE {})

\* A write of a buffer number to availableSetupBuffer / availableOutBuffer: the
\* hardware appends it to the FIFO; written to a full FIFO it is dropped
\* (the AvailableBufferOverflow interrupt).
HwPush(queue, depth, value) ==
    IF Len(queue) < depth THEN Append(queue, value % 32) ELSE queue

\* The caller passes no data.
NoData == [tx |-> <<>>, rx |-> <<>>]

\* One register write, as recorded in `written`.
Write(reg, value) == [reg |-> reg, value |-> value]

(***************************************************************************)
(* Endpoint configuration.                                                 *)
(***************************************************************************)
\* The endpoint numbers the model passes: valid ones, MaxEndpoints itself,
\* and the largest uint8_t.
EpArgs == {0, MaxEndpoints - 1, MaxEndpoints, 255}

\* ep <= MaxEndpoints: the bound is off by one.
ValidEndpointOffByOne(ep) == ep <= MaxEndpoints

\* ep < MaxEndpoints
ValidEndpoint(ep) == ep < MaxEndpoints

NoCfg == [set |-> FALSE, enabled |-> FALSE, setup |-> FALSE, iso |-> FALSE]

EpHist == [out |-> NoCfg, in |-> NoCfg, stall |-> NoCfg]

ConfigureOutEndpoint(ep, enabled, setup, iso) ==
    /\ op' = [name |-> "configure_out_endpoint", ep |-> ep]
    /\ IF ValidEndpoint(ep)
       THEN LET epMask == {ep}
                v1 == SetOrClear(regs.endpointOutEnable, epMask, enabled)
                v2 == SetOrClear(regs.receiveEnableSetup, epMask, setup)
                v3 == SetOrClear(regs.receiveEnableOut, epMask, enabled)
                v4 == SetOrClear(regs.outIsochronous, epMask, iso)
            IN  /\ regs' = [regs EXCEPT !.endpointOutEnable = v1,
                                        !.receiveEnableSetup = v2,
                                        !.receiveEnableOut = v3,
                                        !.outIsochronous = v4]
                /\ written' = <<Write("endpointOutEnable", v1),
                                Write("receiveEnableSetup", v2),
                                Write("receiveEnableOut", v3),
                                Write("outIsochronous", v4)>>
                /\ hist' = [hist EXCEPT !.calls = @ + 1, !.cfg[ep].out =
                              [set |-> TRUE, enabled |-> enabled,
                               setup |-> setup, iso |-> iso]]
                /\ ret' = 0
       ELSE /\ ret' = -1
            /\ written' = <<>>
            /\ hist' = [hist EXCEPT !.calls = @ + 1]
            /\ UNCHANGED regs
    /\ UNCHANGED <<configIn, hwVars, outp, memVars>>

ConfigureInEndpoint(ep, enabled, iso) ==
    /\ op' = [name |-> "configure_in_endpoint", ep |-> ep]
    /\ IF ValidEndpoint(ep)
       THEN LET epMask == {ep}
                v1 == SetOrClear(regs.endpointInEnable, epMask, enabled)
                v2 == SetOrClear(regs.inIsochronous, epMask, iso)
            IN  /\ regs' = [regs EXCEPT !.endpointInEnable = v1,
                                        !.inIsochronous = v2]
                /\ written' = <<Write("endpointInEnable", v1),
                                Write("inIsochronous", v2)>>
                /\ hist' = [hist EXCEPT !.calls = @ + 1, !.cfg[ep].in =
                              [set |-> TRUE, enabled |-> enabled,
                               setup |-> FALSE, iso |-> iso]]
                /\ ret' = 0
       ELSE /\ ret' = -1
            /\ written' = <<>>
            /\ hist' = [hist EXCEPT !.calls = @ + 1]
            /\ UNCHANGED regs
    /\ UNCHANGED <<configIn, hwVars, outp, memVars>>

SetEpStalling(ep, stalling) ==
    /\ op' = [name |-> "set_ep_stalling", ep |-> ep]
    /\ IF ValidEndpoint(ep)
       THEN LET epMask == {ep}
                v1 == SetOrClear(regs.outStall, epMask, stalling)
                v2 == SetOrClear(regs.inStall, epMask, stalling)
            IN  /\ regs' = [regs EXCEPT !.outStall = v1, !.inStall = v2]
                /\ written' = <<Write("outStall", v1), Write("inStall", v2)>>
                /\ hist' = [hist EXCEPT !.calls = @ + 1, !.cfg[ep].stall =
                              [set |-> TRUE, enabled |-> stalling,
                               setup |-> FALSE, iso |-> FALSE]]
                /\ ret' = 0
       ELSE /\ ret' = -1
            /\ written' = <<>>
            /\ hist' = [hist EXCEPT !.calls = @ + 1]
            /\ UNCHANGED regs
    /\ UNCHANGED <<configIn, hwVars, outp, memVars>>

\* The register values a driver can find at entry: the reset state, or every
\* bit of every register already set (the fields are public and the block may
\* have been programmed before).
RegPatterns == {{}, AllBits}

InitEndpoint ==
    /\ \E p \in RegPatterns :
          /\ regs = [r \in RegNames |-> p]
          /\ configIn = [e \in 0..(MaxEndpoints - 1) |-> p]
          /\ hist = [cfg |-> [e \in 0..(MaxEndpoints - 1) |-> EpHist],
                     regs0 |-> [r \in RegNames |-> p],
                     configIn0 |-> [e \in 0..(MaxEndpoints - 1) |-> p],
                     calls |-> 0]
    /\ avSetup = <<>> /\ avOut = <<>> /\ rxFifo = <<>>
    /\ hwCap = OpenTitanCap
    /\ op = [name |-> "none", ep |-> 0]
    /\ ret = 0
    /\ written = <<>>
    /\ outp = NoOutp
    /\ devmem = <<>>
    /\ data = NoData

\* The model follows the driver for MaxCalls configuration calls.
MaxCalls == 3

Counted == hist.calls < MaxCalls

CallConfigureOut ==
    /\ Counted
    /\ \E ep \in EpArgs, enabled \in BOOLEAN, setup \in BOOLEAN, iso \in BOOLEAN :
          ConfigureOutEndpoint(ep, enabled, setup, iso)

CallConfigureIn ==
    /\ Counted
    /\ \E ep \in EpArgs, enabled \in BOOLEAN, iso \in BOOLEAN :
          ConfigureInEndpoint(ep, enabled, iso)

CallSetEpStalling ==
    /\ Counted
    /\ \E ep \in EpArgs, stalling \in BOOLEAN : SetEpStalling(ep, stalling)

NextEndpoint ==
    \/ CallConfigureOut
    \/ CallConfigureIn
    \/ CallSetEpStalling

SpecEndpoint == InitEndpoint /\ [][NextEndpoint]_vars

CfgOps == {"configure_out_endpoint", "configure_in_endpoint", "set_ep_stalling"}

\* The registers the three configuration methods write.
CfgRegs == {"endpointOutEnable", "receiveEnableSetup", "receiveEnableOut",
            "outIsochronous", "endpointInEnable", "inIsochronous",
            "outStall", "inStall"}

\* C5: a configuration call with ep >= MaxEndpoints returns -1, writes no
\* register, and leaves every register and the hardware queues as they were.
C5_InvalidEndpointWritesNothing ==
    [][(op'.name \in CfgOps /\ op'.ep >= MaxEndpoints)
         => /\ ret' = -1
            /\ written' = <<>>
            /\ regs' = regs
            /\ configIn' = configIn
            /\ UNCHANGED hwVars]_vars

\* A refused set_ep_stalling(12, _) made after the stall registers were changed
\* by an earlier, successful call.
C5_Witness ==
    /\ op.name = "set_ep_stalling"
    /\ op.ep = MaxEndpoints
    /\ ret = -1
    /\ regs.outStall # hist.regs0.outStall

\* Bit ep of register r is `val` if the method was called for ep, and is the
\* bit the register started with if it was not.
BitAsConfigured(r, ep, h, val) ==
    (ep \in regs[r]) <=> (IF h.set THEN val ELSE ep \in hist.regs0[r])

\* C6: after any sequence of configuration calls, bit ep of each register holds
\* the value given by the last successful call for ep (enabled, setup, iso,
\* stalling), every bit no call named is as it started, every other register
\* is unchanged, and a call with ep < MaxEndpoints returns 0.
C6_ConfigureSetsExactlyBitEp ==
    /\ \A ep \in 0..(MaxEndpoints - 1) :
          LET h == hist.cfg[ep]
          IN  /\ BitAsConfigured("endpointOutEnable", ep, h.out, h.out.enabled)
              /\ BitAsConfigured("receiveEnableOut", ep, h.out, h.out.enabled)
              /\ BitAsConfigured("receiveEnableSetup", ep, h.out, h.out.setup)
              /\ BitAsConfigured("outIsochronous", ep, h.out, h.out.iso)
              /\ BitAsConfigured("endpointInEnable", ep, h.in, h.in.enabled)
              /\ BitAsConfigured("inIsochronous", ep, h.in, h.in.iso)
              /\ BitAsConfigured("outStall", ep, h.stall, h.stall.enabled)
              /\ BitAsConfigured("inStall", ep, h.stall, h.stall.enabled)
    /\ \A r \in CfgRegs : \A b \in MaxEndpoints..31 :
          (b \in regs[r]) <=> (b \in hist.regs0[r])
    /\ \A r \in RegNames \ CfgRegs : regs[r] = hist.regs0[r]
    /\ configIn = hist.configIn0
    /\ avSetup = <<>> /\ avOut = <<>> /\ rxFifo = <<>>
    /\ (op.name \in CfgOps /\ op.ep < MaxEndpoints => ret = 0)

\* Three calls: OUT endpoint 0 enabled, then IN endpoint 11 disabled in a
\* register that started with the bit set, the bit of endpoint 0 still set.
C6_Witness ==
    /\ op.name = "configure_in_endpoint" /\ op.ep = MaxEndpoints - 1
    /\ ret = 0
    /\ hist.cfg[0].out.set /\ hist.cfg[0].out.enabled /\ ~hist.cfg[0].out.iso
    /\ 0 \in regs.endpointOutEnable /\ 0 \notin regs.outIsochronous
    /\ MaxEndpoints - 1 \in hist.regs0.endpointInEnable
    /\ MaxEndpoints - 1 \notin regs.endpointInEnable
    /\ 0 \in regs.endpointInEnable

(***************************************************************************)
(* Device lifecycle: connect / disconnect / connected / set_device_address.*)
(***************************************************************************)
\* connected(): usbControl & Enable
Connected == regs.usbControl \cap UsbControlEnable # {}

\* connect(), but for the caller's record of the call (hist).
DoConnect ==
    LET v == regs.usbControl \cup UsbControlEnable
    IN  /\ op' = [name |-> "connect"]
        /\ regs' = [regs EXCEPT !.usbControl = v]
        /\ written' = <<Write("usbControl", v)>>
        /\ ret' = 0
        /\ UNCHANGED <<configIn, hwVars, outp, memVars>>

Connect ==
    /\ DoConnect
    /\ UNCHANGED hist

\* disconnect(), but for the caller's record of the call (hist).
DoDisconnect ==
    LET v == regs.usbControl \cap BitNot(UsbControlEnable)
    IN  /\ op' = [name |-> "disconnect"]
        /\ regs' = [regs EXCEPT !.usbControl = v]
        /\ written' = <<Write("usbControl", v)>>
        /\ ret' = 0
        /\ UNCHANGED <<configIn, hwVars, outp, memVars>>

Disconnect ==
    /\ DoDisconnect
    /\ UNCHANGED hist

\* address < 0x80
ValidAddress(address) == address < 128

\* usbControl | (address << 16): the old address is not cleared first.
WithDeviceAddressNoClear(control, address) == control \cup ShiftLeft(address, 16)

\* (usbControl & ~Mask) | (address << 16)
WithDeviceAddress(control, address) ==
    (control \cap BitNot(UsbControlDeviceAddress)) \cup ShiftLeft(address, 16)

SetDeviceAddress(address) ==
    /\ op' = [name |-> "set_device_address", address |-> address]
    /\ IF ValidAddress(address)
       THEN LET v == WithDeviceAddress(regs.usbControl, address)
            IN  /\ regs' = [regs EXCEPT !.usbControl = v]
                /\ written' = <<Write("usbControl", v)>>
                /\ ret' = 0
       ELSE /\ ret' = -1
            /\ written' = <<>>
            /\ UNCHANGED regs
    /\ UNCHANGED <<configIn, hwVars, outp, memVars, hist>>

\* The uint8_t addresses the model passes.
AddressArgs == {0, 1, 42, 85, 127, 128, 129, 255}

\* Values of usbControl at entry: reset, every bit set, and the unused bits
\* and ResumeLinkActive set with Enable and the address clear.
ControlPatterns == {{}, AllBits, UsbControlResumeLinkActive \cup (2..15) \cup (23..31)}

InitLifecycle ==
    /\ \E p \in ControlPatterns :
          /\ regs = [r \in RegNames |-> p]
          /\ hist = [cfg |-> [e \in 0..(MaxEndpoints - 1) |-> EpHist],
                     regs0 |-> [r \in RegNames |-> p],
                     configIn0 |-> ResetConfigIn,
                     calls |-> 0]
    /\ configIn = ResetConfigIn
    /\ avSetup = <<>> /\ avOut = <<>> /\ rxFifo = <<>>
    /\ hwCap = OpenTitanCap
    /\ op = [name |-> "none"]
    /\ ret = 0
    /\ written = <<>>
    /\ outp = NoOutp
    /\ devmem = <<>>
    /\ data = NoData

CallSetDeviceAddress == \E address \in AddressArgs : SetDeviceAddress(address)

NextLifecycle ==
    \/ Connect
    \/ Disconnect
    \/ CallSetDeviceAddress

SpecLifecycle == InitLifecycle /\ [][NextLifecycle]_vars

\* C10: set_device_address(addr) with addr >= 0x80 returns -1 and stores
\* nothing; with addr < 0x80 it returns 0, bits 16-22 of usbControl then read
\* as addr, every other bit of usbControl and every other register is as
\* before, and connected() answers as before.
C10_SetDeviceAddress ==
    [][op'.name = "set_device_address"
         => IF op'.address >= 128
            THEN /\ ret' = -1
                 /\ written' = <<>>
                 /\ regs' = regs
            ELSE /\ ret' = 0
                 /\ FieldOf(regs'.usbControl, 16, 7) = op'.address
                 /\ regs'.usbControl \ UsbControlDeviceAddress
                      = regs.usbControl \ UsbControlDeviceAddress
                 /\ \A r \in RegNames \ {"usbControl"} : regs'[r] = regs[r]
                 /\ Connected' = Connected]_vars

\* The address 0x7F replaced by 42 on a connected device whose control
\* register also holds ResumeLinkActive.
C10_Witness ==
    /\ op.name = "set_device_address" /\ op.address = 42
    /\ ret = 0
    /\ FieldOf(regs.usbControl, 16, 7) = 42
    /\ Connected
    /\ 1 \in regs.usbControl
    /\ 23 \in regs.usbControl
    /\ 0 \notin hist.regs0.usbControl

(***************************************************************************)
(* The word-transfer algorithm, usbdev_transfer.                           *)
(*                                                                         *)
(* Memory is a map from byte address to byte.  A 32-bit word is the record *)
(* [lo, hi] of its two 16-bit halves; the CPU is little-endian, so the     *)
(* word at address a is made of the bytes a .. a+3, least significant      *)
(* first.  Every load and store is recorded with its width.                *)
(***************************************************************************)
MemRead(mem, a) == IF a \in DOMAIN mem THEN mem[a] ELSE 0

\* A 32-bit load.
LoadWord(mem, a) ==
    [lo |-> MemRead(mem, a) + 256 * MemRead(mem, a + 1),
     hi |-> MemRead(mem, a + 2) + 256 * MemRead(mem, a + 3)]

\* A 32-bit store.
StoreWord(mem, a, w) ==
    [x \in DOMAIN mem \cup (a..(a + 3)) |->
        IF x = a THEN w.lo % 256
        ELSE IF x = a + 1 THEN w.lo \div 256
        ELSE IF x = a + 2 THEN w.hi % 256
        ELSE IF x = a + 3 THEN w.hi \div 256
        ELSE mem[x]]

\* An 8-bit store.
StoreByte(mem, a, b) ==
    [x \in DOMAIN mem \cup {a} |-> IF x = a THEN b ELSE mem[x]]

Access(addr, width) == [addr |-> addr, width |-> width]

\* *destination++ = *source++ (one word)
CopyWord(t) ==
    [t EXCEPT !.dst = StoreWord(t.dst, t.d, LoadWord(t.src, t.s)),
              !.d = @ + 4,
              !.s = @ + 4,
              !.loads = Append(@, Access(t.s, 4)),
              !.stores = Append(@, Access(t.d, 4))]

\* while (source < sourceEnd) { four word copies }
RECURSIVE UnrolledLoop(_, _)
UnrolledLoop(t, sourceEnd) ==
    IF t.s < sourceEnd
    THEN UnrolledLoop(CopyWord(CopyWord(CopyWord(CopyWord(t)))), sourceEnd)
    ELSE t

\* for (...; size >= UnrollFactor; size -= UnrollFactor) *destination++ = *source++;
RECURSIVE WordLoop(_)
WordLoop(t) ==
    IF t.size >= 4
    THEN WordLoop([CopyWord(t) EXCEPT !.size = @ - 4])
    ELSE t

\* The third trailing byte is left out of the word.
PartialWordTwoBytes(mem, a, size) ==
    LET b0 == MemRead(mem, a)
        b1 == IF size > 1 THEN MemRead(mem, a + 1) ELSE 0
    IN  [lo |-> b0 + 256 * b1, hi |-> 0]

\* partialWord = trailingBytes[0] | trailingBytes[1] << 8 | trailingBytes[2] << 16
PartialWord(mem, a, size) ==
    LET b0 == MemRead(mem, a)
        b1 == IF size > 1 THEN MemRead(mem, a + 1) ELSE 0
        b2 == IF size > 2 THEN MemRead(mem, a + 2) ELSE 0
    IN  [lo |-> b0 + 256 * b1, hi |-> b2]

\* The trailing 1-3 bytes, to the device: collect them and store one word.
TailToDevice(t) ==
    [t EXCEPT !.dst = StoreWord(t.dst, t.d, PartialWord(t.src, t.s, t.size)),
              !.loads = @ \o [i \in 1..t.size |-> Access(t.s + i - 1, 1)],
              !.stores = Append(@, Access(t.d, 4))]

\* The final word is stored whole.
TailFromDeviceWholeWord(t) ==
    [t EXCEPT !.dst = StoreWord(t.dst, t.d, LoadWord(t.src, t.s)),
              !.loads = Append(@, Access(t.s, 4)),
              !.stores = Append(@, Access(t.d, 4))]

\* The trailing 1-3 bytes, from the device: load one word and store its bytes.
TailFromDevice(t) ==
    LET TrailingBytes == LoadWord(t.src, t.s)
        m0 == StoreByte(t.dst, t.d, TrailingBytes.lo % 256)
        m1 == IF t.size > 1
              THEN StoreByte(m0, t.d + 1, (TrailingBytes.lo \div 256) % 256)
              ELSE m0
        m2 == IF t.size > 2
              THEN StoreByte(m1, t.d + 2, TrailingBytes.hi % 256)
              ELSE m1
    IN  [t EXCEPT !.dst = m2,
                  !.loads = Append(@, Access(t.s, 4)),
                  !.stores = @ \o [i \in 1..t.size |-> Access(t.d + i - 1, 1)]]

\* usbdev_transfer(destination, source, size, toDevice): the memory `dst` after
\* the transfer, with the loads and stores made.
UsbdevTransfer(dst, d, src, s, size, toDevice) ==
    LET UnrollSize == size - (size % 16)
        t0 == [dst |-> dst, d |-> d, src |-> src, s |-> s, size |-> size,
               loads |-> <<>>, stores |-> <<>>]
        t1 == UnrolledLoop(t0, s + UnrollSize)
        t2 == WordLoop([t1 EXCEPT !.size = size % 16])
    IN  IF t2.size = 0 THEN t2
        ELSE IF toDevice THEN TailToDevice(t2)
        ELSE TailFromDevice(t2)

\* buffers(bufferId): the byte offset of the buffer in packet buffer memory.
BufferOffset(bufferId) == bufferId * MaxPacketLen

(***************************************************************************)
(* The transfer on its own: a pattern is written to a packet buffer with   *)
(* the to-device path and read back with the from-device path.             *)
(***************************************************************************)
\* The byte patterns are numbered 0..MaxPattern.
MaxPattern == 3

\* Byte k of pattern p: consecutive bytes differ, and the values cover the
\* whole byte range.
PatternByte(p, k) == (p * 97 + k * (2 * p + 1) + (IF p = 0 THEN 255 ELSE 0)) % 256

\* The caller's array is longer than the largest packet.
DataLen == MaxPacketLen + 4

\* What the caller's receive array holds before a transfer.
RxFill == [k \in 0..(DataLen - 1) |-> 238]

InitTransfer ==
    /\ regs = ResetRegs
    /\ configIn = ResetConfigIn
    /\ avSetup = <<>> /\ avOut = <<>> /\ rxFifo = <<>>
    /\ hwCap = OpenTitanCap
    /\ op = [name |-> "none"]
    /\ ret = 0
    /\ written = <<>>
    /\ outp = NoOutp
    /\ devmem = <<>>
    /\ \E p \in 0..MaxPattern :
          data = [tx |-> [k \in 0..(DataLen - 1) |-> PatternByte(p, k)],
                  rx |-> RxFill]
    /\ hist = [calls |-> 0]

\* usbdev_transfer(buffers(buf), data, size, true)
TransferToDevice ==
    /\ op.name = "none"
    /\ \E size \in 0..MaxPacketLen, buf \in {0, NumBuffers - 1} :
          LET t == UsbdevTransfer(devmem, BufferOffset(buf), data.tx, 0, size, TRUE)
          IN  /\ devmem' = t.dst
              /\ op' = [name |-> "usbdev_transfer", toDevice |-> TRUE,
                        size |-> size, buf |-> buf,
                        loads |-> t.loads, stores |-> t.stores]
    /\ UNCHANGED <<regs, configIn, hwVars, ret, written, outp, data, hist>>

\* usbdev_transfer(data, buffers(buf), size, false), for the buffer and size
\* just written.
TransferFromDevice ==
    /\ op.name = "usbdev_transfer" /\ op.toDevice
    /\ LET t == UsbdevTransfer(data.rx, 0, devmem, BufferOffset(op.buf),
                               op.size, FALSE)
       IN  /\ data' = [data EXCEPT !.rx = t.dst]
           /\ op' = [name |-> "usbdev_transfer", toDevice |-> FALSE,
                     size |-> op.size, buf |-> op.buf,
                     loads |-> t.loads, stores |-> t.stores]
    /\ UNCHANGED <<regs, configIn, hwVars, ret, written, outp, devmem, hist>>

NextTransfer ==
    \/ TransferToDevice
    \/ TransferFromDevice

SpecTransfer == InitTransfer /\ [][NextTransfer]_vars

\* C8: after size bytes (0..64) were copied to a packet buffer with the
\* to-device path and size bytes copied back with the from-device path, the
\* first size bytes read back are the bytes that were written.
C8_TransferRoundTrip ==
    (op.name = "usbdev_transfer" /\ ~op.toDevice)
        => \A k \in 0..(op.size - 1) : data.rx[k] = data.tx[k]

\* A round trip of 63 bytes (three blocks, three single words and a tail of
\* three bytes) whose last byte differs from what the array held before.
C8_Witness ==
    /\ op.name = "usbdev_transfer" /\ ~op.toDevice
    /\ op.size = 63
    /\ data.rx[62] = data.tx[62]
    /\ data.tx[62] # 238
    /\ data.rx[63] = 238
    /\ Len(op.stores) = 18

(***************************************************************************)
(* The buffer allocator: supply_buffers and init.                          *)
(***************************************************************************)
\* UsbStatusField::ReceiveEmpty instead of AvailableSetupFull.
SetupFullBitWrong == {31}

\* constexpr uint32_t SetupFullBit = UsbStatusField::AvailableSetupFull
SetupFullBit == {30}

\* UsbStatusField::Sense instead of AvailableOutFull.
OutFullBitWrong == {15}

\* constexpr uint32_t OutFullBit = UsbStatusField::AvailableOutFull
OutFullBit == {23}

\* buf_avail is left as it is.
ClearBufferKeeps(buf_avail, buf_num) == buf_avail

\* buf_avail &= ~(1U << buf_num): the mask is a 32-bit value, zero-extended
\* to the uint64_t buf_avail, so the bits 32..63 of buf_avail are cleared too.
ClearBuffer(buf_avail, buf_num) == buf_avail \cap BitNot({buf_num})

\* A write to a queue register, with the usbStatus the loop read before it.
QueueWrite(reg, value, status) == [reg |-> reg, value |-> value, status |-> status]

\* The loop leaves at the first set bit found with either queue full.
RECURSIVE SupplyLoopStopsWhenEitherFull(_, _)
SupplyLoopStopsWhenEitherFull(s, buf_num) ==
    IF buf_num >= NumBuffers THEN s
    ELSE IF buf_num \notin s.buf_avail THEN SupplyLoopStopsWhenEitherFull(s, buf_num + 1)
    ELSE LET usbStatus == UsbStatus(s.setupQ, s.outQ, rxFifo, hwCap)
         IN  IF usbStatus \cap (SetupFullBit \cup OutFullBit) # {}
             THEN s
             ELSE SupplyLoopStopsWhenEitherFull(
                    [s EXCEPT !.setupQ = HwPush(@, hwCap.setup, buf_num),
                              !.writes = Append(@, QueueWrite("availableSetupBuffer",
                                                              buf_num, usbStatus)),
                              !.buf_avail = ClearBuffer(@, buf_num)],
                    buf_num + 1)

\* The loop of supply_buffers from buf_num on; s = [buf_avail, setupQ, outQ, writes].
RECURSIVE SupplyLoop(_, _)
SupplyLoop(s, buf_num) ==
    IF buf_num >= NumBuffers THEN s
    ELSE IF buf_num \notin s.buf_avail THEN SupplyLoop(s, buf_num + 1)
    ELSE LET usbStatus == UsbStatus(s.setupQ, s.outQ, rxFifo, hwCap)
         IN  IF usbStatus \cap SetupFullBit # {}
             THEN IF usbStatus \cap OutFullBit # {}
                  THEN s
                  ELSE SupplyLoop(
                         [s EXCEPT !.outQ = HwPush(@, hwCap.out, buf_num),
                                   !.writes = Append(@, QueueWrite("availableOutBuffer",
                                                                   buf_num, usbStatus)),
                                   !.buf_avail = ClearBuffer(@, buf_num)],
                         buf_num + 1)
             ELSE SupplyLoop(
                    [s EXCEPT !.setupQ = HwPush(@, hwCap.setup, buf_num),
                              !.writes = Append(@, QueueWrite("availableSetupBuffer",
                                                              buf_num, usbStatus)),
                              !.buf_avail = ClearBuffer(@, buf_num)],
                    buf_num + 1)

\* supply_buffers(buf_avail): [buf_avail (the value returned), setupQ, outQ, writes]
SupplyBuffers(buf_avail) ==
    SupplyLoop([buf_avail |-> buf_avail, setupQ |-> avSetup, outQ |-> avOut,
                writes |-> <<>>], 0)

\* ((uint64_t)1U << (NumBuffers - 1)) - 1U: one buffer short.
AllBuffersButLast == 0..(NumBuffers - 2)

\* ((uint64_t)1U << NumBuffers) - 1U
AllBuffers == 0..(NumBuffers - 1)

\* PhyConfigField::UseDifferentialReceiver
UseDifferentialReceiver == {0}

\* The bitmaps the model passes to supply_buffers: empty, single buffers, the
\* odd buffers, the upper buffers, all of them, and a uint64_t value with a
\* bit above the 32 buffers.
BitmapArgs ==
    {{}, {0}, {NumBuffers - 1}, {b \in AllBuffers : b % 2 = 1}, 20..(NumBuffers - 1),
     AllBuffers, {3, 40}}

\* The model follows the allocator for MaxSupplySteps calls and hardware steps.
MaxSupplySteps == 3

SupplyCounted == hist.calls < MaxSupplySteps

\* supply_buffers(buf_avail), but for the caller's record of the call (hist).
DoSupplyBuffers(buf_avail) ==
    LET r == SupplyBuffers(buf_avail)
    IN  /\ op' = [name |-> "supply_buffers", buf_avail |-> buf_avail,
                  setup0 |-> Len(avSetup), out0 |-> Len(avOut)]
        /\ avSetup' = r.setupQ
        /\ avOut' = r.outQ
        /\ written' = r.writes
        /\ ret' = r.buf_avail
        /\ UNCHANGED <<regs, configIn, rxFifo, hwCap, outp, memVars>>

CallSupplyBuffers ==
    /\ SupplyCounted
    /\ \E buf_avail \in BitmapArgs : DoSupplyBuffers(buf_avail)
    /\ hist' = [hist EXCEPT !.calls = @ + 1]

\* init(buf_avail)
DoInit ==
    LET r == SupplyBuffers(AllBuffers)
    IN  /\ op' = [name |-> "init", buf_avail |-> AllBuffers,
                  setup0 |-> Len(avSetup), out0 |-> Len(avOut)]
        /\ avSetup' = r.setupQ
        /\ avOut' = r.outQ
        /\ outp' = [outp EXCEPT !.buf_avail = r.buf_avail]
        /\ regs' = [regs EXCEPT !.phyConfig = UseDifferentialReceiver]
        /\ written' = Append(r.writes, Write("phyConfig", UseDifferentialReceiver))
        /\ ret' = 0
        /\ UNCHANGED <<configIn, rxFifo, hwCap, memVars>>

CallInit ==
    /\ SupplyCounted
    /\ DoInit
    /\ hist' = [hist EXCEPT !.calls = @ + 1]

\* The hardware takes the buffer at the head of the Available SETUP FIFO to
\* receive a SETUP packet into it.
DoHwTakeSetup ==
    /\ avSetup # <<>>
    /\ avSetup' = Tail(avSetup)
    /\ op' = [name |-> "hw_take_setup", buf |-> Head(avSetup)]
    /\ UNCHANGED <<regs, configIn, avOut, rxFifo, hwCap, ret, written, outp, memVars>>

HwTakeSetup ==
    /\ SupplyCounted
    /\ DoHwTakeSetup
    /\ hist' = [hist EXCEPT !.calls = @ + 1]

\* The hardware takes the buffer at the head of the Available OUT FIFO to
\* receive an OUT packet into it.
DoHwTakeOut ==
    /\ avOut # <<>>
    /\ avOut' = Tail(avOut)
    /\ op' = [name |-> "hw_take_out", buf |-> Head(avOut)]
    /\ UNCHANGED <<regs, configIn, avSetup, rxFifo, hwCap, ret, written, outp, memVars>>

HwTakeOut ==
    /\ SupplyCounted
    /\ DoHwTakeOut
    /\ hist' = [hist EXCEPT !.calls = @ + 1]

\* Cold start: the device after reset, on any of the hardware instances.
InitSupply ==
    /\ regs = ResetRegs
    /\ configIn = ResetConfigIn
    /\ avSetup = <<>> /\ avOut = <<>> /\ rxFifo = <<>>
    /\ hwCap \in HwCaps
    /\ op = [name |-> "none"]
    /\ ret = 0
    /\ written = <<>>
    /\ outp = NoOutp
    /\ devmem = <<>>
    /\ data = NoData
    /\ hist = [calls |-> 0]

NextSupply ==
    \/ CallSupplyBuffers
    \/ CallInit
    \/ HwTakeSetup
    \/ HwTakeOut

SpecSupply == InitSupply /\ [][NextSupply]_vars

\* The buffer numbers written to the queue registers by the last call, in order.
QueueRegs == {"availableSetupBuffer", "availableOutBuffer"}

IsQueueWrite(w) == w.reg \in QueueRegs

QueueWrites == SelectSeq(written, IsQueueWrite)

IsSetupWrite(w) == w.reg = "availableSetupBuffer"

IsOutWrite(w) == w.reg = "availableOutBuffer"

Assigned == {QueueWrites[i].value : i \in 1..Len(QueueWrites)}

StrictlyAscending(ws) == \A i \in 1..(Len(ws) - 1) : ws[i].value < ws[i + 1].value

\* r is the set of the elements of B at and above some index.
HighTailOf(r, B) == r \subseteq B /\ \A b \in B : b \in r <=> \E f \in r : f <= b

SetupReportsFull == 30 \in UsbStatus(avSetup, avOut, rxFifo, hwCap)

OutReportsFull == 23 \in UsbStatus(avSetup, avOut, rxFifo, hwCap)

\* C1: for a 32-bit bitmap B and both queues empty at entry, supply_buffers(B)
\* writes buffer numbers in strictly ascending order, the buffers written are
\* B minus the residual, the residual is the part of B at and above the first
\* buffer not placed, and buffers are left over only when both queues were
\* filled to their depth.
C1_AscendingUntilFullResidualHighTail ==
    (op.name = "supply_buffers" /\ op.setup0 = 0 /\ op.out0 = 0
       /\ op.buf_avail \subseteq AllBuffers)
        => /\ StrictlyAscending(QueueWrites)
           /\ Assigned = op.buf_avail \ ret
           /\ HighTailOf(ret, op.buf_avail)
           /\ Len(QueueWrites) = Cardinality(Assigned)
           /\ avSetup \o avOut = [i \in 1..Len(QueueWrites) |-> QueueWrites[i].value]
           /\ ret # {} => /\ Len(QueueWrites) = hwCap.setup + hwCap.out
                          /\ SetupReportsFull /\ OutReportsFull

\* The odd buffers offered to the empty queues of the OpenTitan instance: the
\* first twelve are placed and 25, 27, 29 and 31 are returned.
C1_Witness ==
    /\ op.name = "supply_buffers" /\ op.setup0 = 0 /\ op.out0 = 0
    /\ op.buf_avail = {b \in AllBuffers : b % 2 = 1}
    /\ hwCap = OpenTitanCap
    /\ ret = {25, 27, 29, 31}
    /\ avSetup = <<1, 3, 5, 7>>
    /\ Len(avOut) = 8

\* C2: whatever the queues held at entry and whatever the bitmap, a call of
\* supply_buffers (also the one made by init) writes at most as many buffers
\* as the two queues had room for, never writes to a queue whose full flag
\* was set in the status read before the write, and no write is dropped.
C2_NeverMoreThanRemainingDepth ==
    (op.name \in {"supply_buffers", "init"})
        => /\ Len(QueueWrites)
                <= (hwCap.setup - op.setup0) + (hwCap.out - op.out0)
           /\ \A i \in 1..Len(QueueWrites) :
                 LET w == QueueWrites[i]
                 IN  /\ IsSetupWrite(w) => 30 \notin w.status
                     /\ IsOutWrite(w) => 23 \notin w.status
           /\ Len(avSetup) = op.setup0 + Len(SelectSeq(QueueWrites, IsSetupWrite))
           /\ Len(avOut) = op.out0 + Len(SelectSeq(QueueWrites, IsOutWrite))
           /\ Len(avSetup) <= hwCap.setup
           /\ Len(avOut) <= hwCap.out

\* A call that found the SETUP queue full and one place in the OUT queue:
\* one buffer is written although more were offered.
C2_Witness ==
    /\ op.name = "supply_buffers"
    /\ op.setup0 = hwCap.setup /\ op.out0 = hwCap.out - 1
    /\ Cardinality(op.buf_avail) > 1
    /\ Len(QueueWrites) = 1
    /\ OutReportsFull

\* C3: for a bitmap of the 32 buffers, every write goes to the SETUP queue when
\* the status read before it does not report that queue full, and to the OUT
\* queue only when the SETUP queue is reported full and the OUT queue is not;
\* the writes are the set bits in ascending order up to the first one found
\* with both queues full, and that bit and all higher ones are returned.  A
\* call that finds both queues full writes nothing and returns its argument.
C3_SetupFirstThenOutElseStop ==
    /\ (op.name = "supply_buffers" /\ op.buf_avail \subseteq AllBuffers)
          => /\ \A i \in 1..Len(QueueWrites) :
                   LET w == QueueWrites[i]
                   IN  /\ IsSetupWrite(w) <=> 30 \notin w.status
                       /\ IsOutWrite(w) <=> (30 \in w.status /\ 23 \notin w.status)
             /\ StrictlyAscending(QueueWrites)
             /\ Assigned = op.buf_avail \ ret
             /\ HighTailOf(ret, op.buf_avail)
             /\ ret # {} => (SetupReportsFull /\ OutReportsFull)
    /\ (op.name = "supply_buffers" /\ op.setup0 = hwCap.setup /\ op.out0 = hwCap.out)
          => /\ written = <<>>
             /\ ret = op.buf_avail
             /\ Len(avSetup) = op.setup0 /\ Len(avOut) = op.out0

\* The upper buffers offered when the SETUP queue has one place and the OUT
\* queue two: 20 goes to SETUP, 21 and 22 to OUT, the rest is returned.
C3_Witness ==
    /\ op.name = "supply_buffers"
    /\ op.buf_avail = 20..(NumBuffers - 1)
    /\ Len(QueueWrites) = 3
    /\ IsSetupWrite(QueueWrites[1]) /\ QueueWrites[1].value = 20
    /\ IsOutWrite(QueueWrites[2]) /\ IsOutWrite(QueueWrites[3])
    /\ ret = 23..(NumBuffers - 1)

\* init was called with both queues empty.
ColdInit == op.name = "init" /\ op.setup0 = 0 /\ op.out0 = 0

\* C4 as stated: after init on a cold start the residual bitmap is 0 and both
\* queues report full.
C4_ColdInitLeavesNoResidual ==
    ColdInit => /\ outp.buf_avail = {}
                /\ SetupReportsFull /\ OutReportsFull

\* C4, amended: after init on a cold start both queues report full, holding
\* the lowest-numbered buffers (the SETUP queue first), init returns 0 with
\* phyConfig = UseDifferentialReceiver, and the residual bitmap is not 0: it
\* is every buffer from (SETUP depth + OUT depth) up to 31.
C4_ColdInitFillsQueuesResidualIsRest ==
    ColdInit => /\ SetupReportsFull /\ OutReportsFull
                /\ avSetup = [i \in 1..hwCap.setup |-> i - 1]
                /\ avOut = [i \in 1..hwCap.out |-> hwCap.setup + i - 1]
                /\ outp.buf_avail = (hwCap.setup + hwCap.out)..(NumBuffers - 1)
                /\ outp.buf_avail # {}
                /\ ret = 0
                /\ regs.phyConfig = UseDifferentialReceiver

\* init on the OpenTitan instance: buffers 0-3 and 4-11 are queued, and 12-31
\* come back in the residual bitmap.
C4_Witness ==
    /\ ColdInit
    /\ hwCap = OpenTitanCap
    /\ avSetup = <<0, 1, 2, 3>>
    /\ Len(avOut) = 8
    /\ outp.buf_avail = 12..31

(***************************************************************************)
(* The packet transfer engine: send_packet, packet_collected, recv_packet, *)
(* with the hardware completing IN transmissions and receiving packets.    *)
(*                                                                         *)
(* send_packet is followed store by store (op.at), because the hardware    *)
(* watches configIn between the stores; a driver method is entered only    *)
(* when no send_packet is under way (the driver is single-threaded).       *)
(***************************************************************************)
\* ConfigInField::Ready
ReadyBit == {31}

\* (0x1Eu << 0): bit 0 of the buffer number is not part of the field.
BufferIdMaskNoBit0 == 1..4

\* ConfigInField::BufferId / ReceiveBufferField::BufferId
BufferIdMask == 0..4

\* UsbStatusField::ReceiveEmpty taken for the depth field.
ReceiveDepthMaskWrong == {31}

\* UsbStatusField::ReceiveDepth
ReceiveDepthMask == 24..27

\* inSent = sent: every bit that was read as set is written back, and cleared.
WriteOneToClearAll(reg, value) == reg \ reg

\* A write of `value` to a write-one-to-clear register such as inSent.
WriteOneToClear(reg, value) == reg \ value

\* (buf_num << 8) | (size << 0): the two fields exchanged.
ConfigInValueSwapped(buf_num, size) == ShiftLeft(buf_num, 8) \cup ShiftLeft(size, 0)

\* (buf_num << 0) | (size << 8)
ConfigInValue(buf_num, size) == ShiftLeft(buf_num, 0) \cup ShiftLeft(size, 8)

\* configIn[ep] = ReadyBit: the fields of the first store are not kept.
WithReadyOnly(config) == ReadyBit

\* configIn[ep] | ReadyBit
WithReady(config) == config \cup ReadyBit

DriverIdle == IF op.name = "send_packet" THEN op.at = "done" ELSE TRUE

\* What is known of the IN endpoint e: the buffer of the last send_packet, and
\* whether that packet is being sent or has been sent and not yet collected.
NoSend == [buf |-> 0, st |-> "idle"]

\* send_packet, up to and including the copy of the payload.
DoSendCopy(buf_num, ep, size) ==
    /\ DriverIdle
    /\ LET t == UsbdevTransfer(devmem, BufferOffset(buf_num), data.tx, 0, size, TRUE)
       IN  /\ devmem' = IF size # 0 THEN t.dst ELSE devmem
           /\ op' = [name |-> "send_packet", at |-> "copied",
                     buf_num |-> buf_num, ep |-> ep, size |-> size,
                     stores |-> IF size # 0 THEN t.stores ELSE <<>>]
    /\ written' = <<>>
    /\ UNCHANGED <<regs, configIn, hwVars, ret, outp, data>>

SendCopy(buf_num, ep, size) ==
    /\ DoSendCopy(buf_num, ep, size)
    /\ hist' = [hist EXCEPT !.calls = @ + 1,
                            !.in[ep] = [buf |-> buf_num, st |-> "sending"]]

\* The registers that follow configIn[MaxEndpoints - 1] in the register
\* block ("defined sequentially with no gaps in memory").
AfterConfigIn ==
    <<"outIsochronous", "inIsochronous", "outDataToggle", "inDataToggle",
      "phyPinsSense", "phyPinsDrive", "phyConfig">>

\* configIn[ep] is one of the registers after the array.
PastConfigIn(ep) == ep >= MaxEndpoints /\ ep - MaxEndpoints < Len(AfterConfigIn)

\* A read of configIn[ep]: send_packet does not test ep, and for
\* ep >= MaxEndpoints the word read is the register 4 * (ep - MaxEndpoints)
\* bytes after the array (or, after phyConfig, not a register of the block).
ConfigInRead(ep) ==
    IF ep < MaxEndpoints THEN configIn[ep]
    ELSE IF PastConfigIn(ep) THEN regs[AfterConfigIn[ep - MaxEndpoints + 1]]
    ELSE {}

\* A store of v to configIn[ep].
ConfigInStore(ep, v) ==
    IF ep < MaxEndpoints
    THEN /\ configIn' = [configIn EXCEPT ![ep] = v]
         /\ UNCHANGED regs
    ELSE IF PastConfigIn(ep)
    THEN /\ regs' = [regs EXCEPT ![AfterConfigIn[ep - MaxEndpoints + 1]] = v]
         /\ UNCHANGED configIn
    ELSE UNCHANGED <<regs, configIn>>

\* The subscript is outside the array: the access may also end the call.
SendTraps ==
    /\ op.ep >= MaxEndpoints
    /\ op' = [op EXCEPT !.at = "trapped"]
    /\ UNCHANGED <<regs, configIn, written, ret>>

\* configIn[ep] = (buf_num << 0) | (size << 8);
SendConfigure ==
    /\ op.name = "send_packet" /\ op.at = "copied"
    /\ \/ LET v == ConfigInValue(op.buf_num, op.size)
          IN  /\ ConfigInStore(op.ep, v)
              /\ written' = Append(written, Write(<<"configIn", op.ep>>, v))
              /\ op' = [op EXCEPT !.at = "configured"]
              /\ UNCHANGED ret
       \/ SendTraps
    /\ UNCHANGED <<hwVars, outp, memVars, hist>>

\* configIn[ep] = configIn[ep] | ReadyBit; return 0;
SendReady ==
    /\ op.name = "send_packet" /\ op.at = "configured"
    /\ \/ LET v == WithReady(ConfigInRead(op.ep))
          IN  /\ ConfigInStore(op.ep, v)
              /\ written' = Append(written, Write(<<"configIn", op.ep>>, v))
              /\ op' = [op EXCEPT !.at = "done"]
              /\ ret' = 0
       \/ SendTraps
    /\ UNCHANGED <<hwVars, outp, memVars, hist>>

\* The hardware has sent the packet of IN endpoint ep and the host has
\* acknowledged it: inSent[ep] is set and the Ready flag is taken back.
HwInSent(ep) ==
    /\ configIn[ep] \cap ReadyBit # {}
    /\ configIn' = [configIn EXCEPT ![ep] = @ \ ReadyBit]
    /\ regs' = [regs EXCEPT !.inSent = @ \cup {ep}]
    /\ op' = IF DriverIdle THEN [name |-> "hw_in_sent", ep |-> ep] ELSE op
    /\ hist' = IF DriverIdle /\ hist.in[ep].st = "sending"
               THEN [hist EXCEPT !.in[ep].st = "sent"]
               ELSE hist
    /\ UNCHANGED <<hwVars, ret, written, outp, memVars>>

\* The loop does not run past the last endpoint: it is left with
\* ep = MaxEndpoints - 1 when no bit is set.
RECURSIVE FirstSentStopsAtLast(_, _)
FirstSentStopsAtLast(sent, ep) ==
    IF ep >= MaxEndpoints - 1 THEN ep
    ELSE IF sent \cap {ep} # {} THEN ep
    ELSE FirstSentStopsAtLast(sent, ep + 1)

\* for (ep = 0U; ep < MaxEndpoints; ep++) if (sent & (1U << ep)) ...: the value
\* of ep when the loop is left.
RECURSIVE FirstSent(_, _)
FirstSent(sent, ep) ==
    IF ep >= MaxEndpoints THEN ep
    ELSE IF sent \cap {ep} # {} THEN ep
    ELSE FirstSent(sent, ep + 1)

\* Consecutive calls of packet_collected are followed in runs of at most
\* hist.runs calls: op.first is inSent at the start of the run and op.run the
\* position of the call in it.
InCollectRun == op.name = "packet_collected" /\ op.run < hist.runs

DoPacketCollected ==
    /\ DriverIdle
    /\ LET sent == regs.inSent
           ep == FirstSent(sent, 0)
       IN  /\ op' = [name |-> "packet_collected", sent0 |-> sent,
                     in0 |-> hist.in,
                     first |-> IF InCollectRun THEN op.first ELSE sent,
                     run |-> IF InCollectRun THEN op.run + 1 ELSE 1]
           /\ IF ep < MaxEndpoints
              THEN /\ regs' = [regs EXCEPT !.inSent = WriteOneToClear(@, {ep})]
                   /\ written' = <<Write("inSent", {ep})>>
                   /\ outp' = [outp EXCEPT !.ep = ep,
                                 !.buf_num = FieldOf(configIn[ep] \cap BufferIdMask, 0, 5)]
                   /\ ret' = 0
              ELSE /\ outp' = [outp EXCEPT !.ep = ep]
                   /\ written' = <<>>
                   /\ ret' = -1
                   /\ UNCHANGED regs
    /\ UNCHANGED <<configIn, hwVars, memVars>>

PacketCollected ==
    /\ DoPacketCollected
    /\ hist' = IF ret' = 0 THEN [hist EXCEPT !.in[outp'.ep].st = "idle"] ELSE hist

\* The word the hardware puts in the receive FIFO for a packet.
ReceiveWord(buf, size, setup, ep) ==
    ShiftLeft(buf, 0) \cup ShiftLeft(size, 8)
    \cup (IF setup THEN {19} ELSE {}) \cup ShiftLeft(ep, 20)

\* Byte k of the payload of a packet received on endpoint ep.
RxPayloadByte(ep, k) == (171 + 16 * ep + 3 * k) % 256

\* The hardware receives a packet of `size` bytes for OUT endpoint ep: it takes
\* the buffer at the head of the SETUP or OUT queue, stores the payload in it
\* and puts the packet in the receive FIFO.
DoHwReceive(setup, ep, size) ==
    /\ Len(rxFifo) < hwCap.rx
    /\ IF setup THEN avSetup # <<>> ELSE avOut # <<>>
    /\ LET buf == IF setup THEN Head(avSetup) ELSE Head(avOut)
       IN  /\ rxFifo' = Append(rxFifo, ReceiveWord(buf, size, setup, ep))
           /\ devmem' = [x \in DOMAIN devmem
                               \cup {BufferOffset(buf) + k : k \in 0..(size - 1)} |->
                           IF x >= BufferOffset(buf) /\ x < BufferOffset(buf) + size
                           THEN RxPayloadByte(ep, x - BufferOffset(buf))
                           ELSE devmem[x]]
    /\ avSetup' = IF setup THEN Tail(avSetup) ELSE avSetup
    /\ avOut' = IF setup THEN avOut ELSE Tail(avOut)
    /\ op' = IF DriverIdle
             THEN [name |-> "hw_receive", setup |-> setup, ep |-> ep, size |-> size]
             ELSE op
    /\ UNCHANGED <<regs, configIn, hwCap, ret, written, outp, data>>

HwReceive(setup, ep, size) ==
    /\ hist.calls < hist.limit
    /\ DoHwReceive(setup, ep, size)
    /\ hist' = [hist EXCEPT !.calls = @ + 1]

\* (rx & Reg::Size) >> 9: shifted one place too far.
ReceiveSizeHalved(rx) == FieldOf(rx, 9, 6)

\* (rx & Reg::Size) >> 8
ReceiveSize(rx) == FieldOf(rx, 8, 7)

DoRecvPacket ==
    /\ DriverIdle
    /\ LET usbStatus == UsbStatus(avSetup, avOut, rxFifo, hwCap)
       IN  IF usbStatus \cap ReceiveDepthMask # {}
           THEN LET rx == IF rxFifo # <<>> THEN Head(rxFifo) ELSE {}
                    ep == FieldOf(rx, 20, 4)
                    size == ReceiveSize(rx)
                    is_setup == rx \cap {19} # {}
                    buf_num == FieldOf(rx \cap BufferIdMask, 0, 5)
                    t == UsbdevTransfer(data.rx, 0, devmem, BufferOffset(buf_num),
                                        size, FALSE)
                IN  /\ rxFifo' = IF rxFifo # <<>> THEN Tail(rxFifo) ELSE rxFifo
                    /\ outp' = [outp EXCEPT !.ep = ep, !.size = size,
                                            !.is_setup = is_setup, !.buf_num = buf_num]
                    /\ data' = IF size # 0 THEN [data EXCEPT !.rx = t.dst] ELSE data
                    /\ op' = [name |-> "recv_packet", popped |-> <<rx>>,
                              fifo0 |-> rxFifo, rx0 |-> data.rx,
                              loads |-> IF size # 0 THEN t.loads ELSE <<>>,
                              stores |-> IF size # 0 THEN t.stores ELSE <<>>]
                    /\ ret' = 0
           ELSE /\ op' = [name |-> "recv_packet", popped |-> <<>>,
                          fifo0 |-> rxFifo, rx0 |-> data.rx,
                          loads |-> <<>>, stores |-> <<>>]
                /\ ret' = -1
                /\ UNCHANGED <<rxFifo, outp, data>>
    /\ written' = <<>>
    /\ UNCHANGED <<regs, configIn, avSetup, avOut, hwCap, devmem>>

RecvPacket ==
    /\ DoRecvPacket
    /\ UNCHANGED hist

\* The model follows MaxPacketSteps packets (sent or received).
MaxPacketSteps == 2

\* The arguments the model passes to send_packet.
SendBufs == {12, NumBuffers - 1, 37}

SendEps == {0, MaxEndpoints - 1}

SendSizes == {0, 5}

\* The state init leaves on the OpenTitan instance: buffers 0-3 in the SETUP
\* queue, 4-11 in the OUT queue, 12-31 with the caller.
InitPacket ==
    /\ regs = [ResetRegs EXCEPT !.phyConfig = UseDifferentialReceiver]
    /\ configIn = ResetConfigIn
    /\ avSetup = <<0, 1, 2, 3>>
    /\ avOut = <<4, 5, 6, 7, 8, 9, 10, 11>>
    /\ rxFifo = <<>>
    /\ hwCap = OpenTitanCap
    /\ op = [name |-> "init"]
    /\ ret = 0
    /\ written = <<>>
    /\ outp = [NoOutp EXCEPT !.buf_avail = 12..(NumBuffers - 1)]
    /\ devmem = <<>>
    /\ data = [tx |-> [k \in 0..(DataLen - 1) |-> PatternByte(1, k)], rx |-> RxFill]
    /\ hist = [calls |-> 0, limit |-> MaxPacketSteps, runs |-> 1,
               in |-> [e \in 0..(MaxEndpoints - 1) |-> NoSend]]

CallSendPacket ==
    /\ hist.calls < hist.limit
    /\ \E buf_num \in SendBufs, ep \in SendEps, size \in SendSizes :
          SendCopy(buf_num, ep, size)

HwCompletesSend == \E ep \in 0..(MaxEndpoints - 1) : HwInSent(ep)

HwReceivesPacket ==
    \E setup \in BOOLEAN, ep \in {1, 9}, size \in {0, 6} : HwReceive(setup, ep, size)

NextPacket ==
    \/ CallSendPacket
    \/ SendConfigure
    \/ SendReady
    \/ HwCompletesSend
    \/ PacketCollected
    \/ HwReceivesPacket
    \/ RecvPacket

SpecPacket == InitPacket /\ [][NextPacket]_vars

\* The ReceiveDepth field of usbStatus.
ReceiveDepth == FieldOf(UsbStatus(avSetup, avOut, rxFifo, hwCap), 24, 4)

\* C7: packet_collected, called when the only in-sent bit is that of an
\* endpoint e < 12 whose last send_packet (with a buffer number below 32) the
\* hardware has completed, returns 0 with ep = e and buf_num = the buffer
\* number given to that send_packet.
C7_SendCompleteCollectRoundTrip ==
    \A e \in 0..(MaxEndpoints - 1) :
        (op.name = "packet_collected" /\ op.sent0 = {e}
           /\ op.in0[e].st = "sent" /\ op.in0[e].buf < NumBuffers)
            => /\ ret = 0
               /\ outp.ep = e
               /\ outp.buf_num = op.in0[e].buf

\* Buffer 31 sent on endpoint 11, completed by the hardware and collected,
\* after an earlier call had returned another endpoint and buffer.
C7_Witness ==
    /\ op.name = "packet_collected" /\ op.sent0 = {MaxEndpoints - 1}
    /\ op.in0[MaxEndpoints - 1].st = "sent"
    /\ op.in0[MaxEndpoints - 1].buf = NumBuffers - 1
    /\ ret = 0
    /\ outp.ep = MaxEndpoints - 1 /\ outp.buf_num = NumBuffers - 1
    /\ hist.in[0].buf = 12 /\ hist.in[0].st = "idle"
    /\ configIn[0] # {}

\* C9: recv_packet called while ReceiveDepth is 0 returns -1, does not read
\* the receive FIFO, and leaves ep, buf_num, size, is_setup and the caller's
\* data as they were.
C9_RecvOnEmptyFifoChangesNothing ==
    [][(op'.name = "recv_packet" /\ ReceiveDepth = 0)
         => /\ ret' = -1
            /\ op'.popped = <<>>
            /\ rxFifo' = rxFifo
            /\ outp' = outp
            /\ data' = data
            /\ devmem' = devmem]_vars

\* recv_packet on the empty FIFO, after an earlier call had delivered a SETUP
\* packet of 6 bytes for endpoint 9: the outputs of that call are still there.
C9_Witness ==
    /\ op.name = "recv_packet" /\ op.popped = <<>>
    /\ ret = -1
    /\ rxFifo = <<>>
    /\ outp.ep = 9 /\ outp.size = 6 /\ outp.is_setup /\ outp.buf_num = 0
    /\ data.rx[5] = RxPayloadByte(9, 5)
    /\ data.rx[6] = 238

\* The first size bytes of packet buffer buf_num are the first size bytes of
\* the caller's data.
PayloadWritten(buf_num, size) ==
    \A k \in 0..(size - 1) : MemRead(devmem, BufferOffset(buf_num) + k) = data.tx[k]

\* The BufferId and Size fields of configIn[ep].
ConfigInBufferId(ep) == FieldOf(configIn[ep], 0, 5)

ConfigInSize(ep) == FieldOf(configIn[ep], 8, 7)

\* C11 as stated: in every state of a send_packet, Ready set in configIn[ep]
\* implies that the BufferId and Size fields hold the values of this call and
\* that the payload is in the buffer.
C11_ReadyImpliesFieldsOfThisCall ==
    (op.name = "send_packet" /\ ReadyBit \subseteq configIn[op.ep])
        => /\ ConfigInBufferId(op.ep) = op.buf_num
           /\ ConfigInSize(op.ep) = op.size
           /\ PayloadWritten(op.buf_num, op.size)

\* C11, amended: for buf_num < 32 and size <= 64, send_packet copies the
\* payload before its first register store; its first store puts buf_num and
\* size in configIn[ep] with Ready clear; its second store sets Ready and
\* keeps both fields.  So from the first store on, Ready set implies that the
\* fields are those of this call and the payload is in the buffer.  (Before
\* the first store the register still holds what the previous send on the
\* endpoint left, Ready included.)
C11_FieldsAndPayloadBeforeReady ==
    (op.name = "send_packet" /\ op.buf_num < NumBuffers /\ op.size <= MaxPacketLen)
        => /\ op.at = "copied"
              => /\ written = <<>>
                 /\ PayloadWritten(op.buf_num, op.size)
           /\ op.at = "configured"
              => /\ written = <<Write(<<"configIn", op.ep>>,
                                      ShiftLeft(op.buf_num, 0) \cup ShiftLeft(op.size, 8))>>
                 /\ configIn[op.ep] \cap ReadyBit = {}
                 /\ ConfigInBufferId(op.ep) = op.buf_num
                 /\ ConfigInSize(op.ep) = op.size
                 /\ PayloadWritten(op.buf_num, op.size)
           /\ op.at = "done"
              => /\ Len(written) = 2
                 /\ written[2].value = written[1].value \cup ReadyBit
                 /\ written[1].value \cap ReadyBit = {}
                 /\ ret = 0
           /\ (op.at # "copied" /\ ReadyBit \subseteq configIn[op.ep])
              => /\ ConfigInBufferId(op.ep) = op.buf_num
                 /\ ConfigInSize(op.ep) = op.size
                 /\ PayloadWritten(op.buf_num, op.size)

\* A second send_packet on endpoint 11 while the packet of the first is still
\* Ready: buffer 31 and 5 bytes are in the register with Ready clear, and the
\* payload is in buffer 31.
C11_Witness ==
    /\ op.name = "send_packet" /\ op.at = "configured"
    /\ op.ep = MaxEndpoints - 1 /\ op.buf_num = NumBuffers - 1 /\ op.size = 5
    /\ hist.calls = 2
    /\ configIn[op.ep] = {0, 1, 2, 3, 4, 8, 10}
    /\ MemRead(devmem, BufferOffset(NumBuffers - 1) + 4) = data.tx[4]
    /\ data.tx[4] # 0

(***************************************************************************)
(* packet_collected on its own: the driver collects the completed sends of *)
(* several endpoints while the hardware completes further ones.            *)
(***************************************************************************)
\* The longest run of consecutive packet_collected calls the model follows.
MaxCollects == 4

\* The IN endpoints in use.
CollectEps == {0, 3, MaxEndpoints - 1}

\* The buffer that was sent on endpoint e.
CollectBuf(e) == NumBuffers - 1 - e

\* The state after init and send_packet(CollectBuf(e), e, data, 0) on every
\* endpoint of `sending` and `sent`, the hardware having completed the sends
\* of the endpoints in `sent`.
InitCollect ==
    \E sent \in SUBSET CollectEps :
      \E sending \in SUBSET (CollectEps \ sent) :
        /\ regs = [ResetRegs EXCEPT !.phyConfig = UseDifferentialReceiver,
                                    !.inSent = sent]
        /\ configIn = [e \in 0..(MaxEndpoints - 1) |->
                         IF e \in sent THEN ConfigInValue(CollectBuf(e), 0)
                         ELSE IF e \in sending
                              THEN WithReady(ConfigInValue(CollectBuf(e), 0))
                         ELSE {}]
        /\ avSetup = <<0, 1, 2, 3>>
        /\ avOut = <<4, 5, 6, 7, 8, 9, 10, 11>>
        /\ rxFifo = <<>>
        /\ hwCap = OpenTitanCap
        /\ op = [name |-> "send_packet", at |-> "done"]
        /\ ret = 0
        /\ written = <<>>
        /\ outp = [NoOutp EXCEPT !.buf_avail = 12..(NumBuffers - 1)]
        /\ devmem = <<>>
        /\ data = NoData
        /\ hist = [calls |-> 0, limit |-> 0, runs |-> MaxCollects,
                   in |-> [e \in 0..(MaxEndpoints - 1) |->
                             IF e \in sent THEN [buf |-> CollectBuf(e), st |-> "sent"]
                             ELSE IF e \in sending
                                  THEN [buf |-> CollectBuf(e), st |-> "sending"]
                             ELSE NoSend]]

NextCollect ==
    \/ PacketCollected
    \/ HwCompletesSend

SpecCollect == InitCollect /\ [][NextCollect]_vars

\* The endpoints 0..11 whose bit is set in an inSent value.
SentEndpoints(sent) == sent \cap (0..(MaxEndpoints - 1))

LowestOf(S) == CHOOSE x \in S : \A y \in S : x <= y

\* S without its n lowest elements.
RECURSIVE DropLowest(_, _)
DropLowest(S, n) ==
    IF n = 0 \/ S = {} THEN S
    ELSE DropLowest(S \ {LowestOf(S)}, n - 1)

\* C12: packet_collected returns -1 (NoCompletedSend) and stores nothing when
\* no in-sent bit of endpoints 0..11 is set; otherwise it returns 0 with ep the
\* lowest endpoint whose bit is set and buf_num the BufferId field of
\* configIn[ep], and its only store clears that one in-sent bit.  In a run of
\* consecutive calls that starts with k bits set and sees no completion by the
\* hardware, call n succeeds for n <= k, with the n-th lowest endpoint, and
\* fails for n > k.
C12_LowestEndpointFirst ==
    op.name = "packet_collected"
        => /\ IF SentEndpoints(op.sent0) = {}
              THEN /\ ret = -1
                   /\ written = <<>>
                   /\ regs.inSent = op.sent0
              ELSE /\ ret = 0
                   /\ outp.ep = LowestOf(SentEndpoints(op.sent0))
                   /\ outp.buf_num = ConfigInBufferId(outp.ep)
                   /\ outp.buf_num = op.in0[outp.ep].buf
                   /\ written = <<Write("inSent", {outp.ep})>>
                   /\ regs.inSent = op.sent0 \ {outp.ep}
           /\ LET k == Cardinality(SentEndpoints(op.first))
              IN  /\ regs.inSent = DropLowest(op.first, op.run)
                  /\ op.run <= k
                       => /\ ret = 0
                          /\ outp.ep = LowestOf(DropLowest(op.first, op.run - 1))
                  /\ op.run > k => ret = -1

\* Three sends completed (endpoints 0, 3 and 11): the fourth call of the run
\* is the first to fail, the third having returned endpoint 11.
C12_Witness ==
    /\ op.name = "packet_collected"
    /\ op.first = CollectEps
    /\ op.run = 4
    /\ ret = -1
    /\ regs.inSent = {}
    /\ outp.buf_num = CollectBuf(MaxEndpoints - 1)

(***************************************************************************)
(* Buffer ownership.  The driver keeps no record of who owns a buffer; the *)
(* caller does.  The caller of this specification keeps the bitmap of its  *)
(* free buffers (hist.free) and the buffers it holds after recv_packet     *)
(* (hist.held), supplies only free buffers and sends only free buffers.    *)
(* hist.strict records whether it has, in addition, called send_packet     *)
(* only on IN endpoints without an outstanding packet.                     *)
(***************************************************************************)
\* The number of driver calls and received packets the model follows.
MaxOwnerSteps == 6

\* The IN endpoints the caller sends on.
OwnerEps == {0, MaxEndpoints - 1}

InitOwner ==
    /\ regs = ResetRegs
    /\ configIn = ResetConfigIn
    /\ avSetup = <<>> /\ avOut = <<>> /\ rxFifo = <<>>
    /\ hwCap = [setup |-> 1, out |-> 2, rx |-> 2]
    /\ op = [name |-> "none"]
    /\ ret = 0
    /\ written = <<>>
    /\ outp = NoOutp
    /\ devmem = <<>>
    /\ data = NoData
    /\ hist = [calls |-> 0, limit |-> MaxOwnerSteps, runs |-> 1,
               in |-> [e \in 0..(MaxEndpoints - 1) |-> NoSend],
               free |-> AllBuffers, held |-> {}, strict |-> TRUE]

OwnerCounted == hist.calls < hist.limit

\* init(buf_avail) at cold start; the caller keeps the residual bitmap.
OwnerInit ==
    /\ op.name = "none"
    /\ DoInit
    /\ hist' = [hist EXCEPT !.calls = @ + 1, !.free = outp'.buf_avail]

\* buf_avail = supply_buffers(buf_avail)
OwnerSupply ==
    /\ op.name # "none" /\ DriverIdle /\ OwnerCounted
    /\ DoSupplyBuffers(hist.free)
    /\ hist' = [hist EXCEPT !.calls = @ + 1, !.free = ret']

\* send_packet(b, ep, data, 0) with b the lowest free buffer.
OwnerSend ==
    /\ op.name # "none" /\ OwnerCounted
    /\ hist.free # {}
    /\ \E ep \in OwnerEps :
          LET b == CHOOSE x \in hist.free : \A y \in hist.free : x <= y
          IN  /\ DoSendCopy(b, ep, 0)
              /\ hist' = [hist EXCEPT !.calls = @ + 1,
                                      !.in[ep] = [buf |-> b, st |-> "sending"],
                                      !.free = @ \ {b},
                                      !.strict = @ /\ hist.in[ep].st = "idle"]

\* packet_collected(ep, buf_num); on success the caller has the buffer back.
OwnerCollect ==
    /\ op.name # "none" /\ OwnerCounted
    /\ DoPacketCollected
    /\ hist' = IF ret' = 0
               THEN [hist EXCEPT !.calls = @ + 1,
                                 !.in[outp'.ep].st = "idle",
                                 !.free = @ \cup {outp'.buf_num}]
               ELSE [hist EXCEPT !.calls = @ + 1]

\* recv_packet(ep, buf_num, size, is_setup, data); on success the caller holds
\* the buffer of the packet.
OwnerRecv ==
    /\ op.name # "none" /\ OwnerCounted
    /\ DoRecvPacket
    /\ hist' = IF ret' = 0
               THEN [hist EXCEPT !.calls = @ + 1, !.held = @ \cup {outp'.buf_num}]
               ELSE [hist EXCEPT !.calls = @ + 1]

\* The caller has consumed a received packet: its buffer is free again.
OwnerRelease ==
    /\ DriverIdle
    /\ \E b \in hist.held :
          /\ hist' = [hist EXCEPT !.held = @ \ {b}, !.free = @ \cup {b}]
          /\ op' = [name |-> "release", buf |-> b]
    /\ UNCHANGED <<regs, configIn, hwVars, ret, written, outp, memVars>>

\* The hardware receives a zero-length SETUP or OUT packet for endpoint 1.
OwnerHwReceive == \E setup \in BOOLEAN : HwReceive(setup, 1, 0)

NextOwner ==
    \/ OwnerInit
    \/ OwnerSupply
    \/ OwnerSend
    \/ SendConfigure
    \/ SendReady
    \/ HwCompletesSend
    \/ OwnerCollect
    \/ OwnerHwReceive
    \/ OwnerRecv
    \/ OwnerRelease

SpecOwner == InitOwner /\ [][NextOwner]_vars

\* The number of places in the sequence q that hold b.
InQueue(q, b) == Cardinality({i \in 1..Len(q) : q[i] = b})

\* The number of receive FIFO entries that name buffer b.
InReceiveFifo(b) == Cardinality({i \in 1..Len(rxFifo) : FieldOf(rxFifo[i], 0, 5) = b})

\* The IN endpoints whose descriptor is live and names buffer b: the packet is
\* Ready, or sent and not yet collected.
PendingIn(b) ==
    {e \in 0..(MaxEndpoints - 1) :
        /\ (ReadyBit \subseteq configIn[e] \/ e \in regs.inSent)
        /\ ConfigInBufferId(e) = b}

\* A send_packet that has not yet set Ready holds its buffer.
InSendCall(b) ==
    IF op.name = "send_packet"
    THEN IF op.at # "done" /\ op.buf_num = b THEN 1 ELSE 0
    ELSE 0

\* In how many places buffer b is: free, queued-setup, queued-out, pending-in,
\* received (in the receive FIFO or held by the caller).
Owners(b) ==
    (IF b \in hist.free THEN 1 ELSE 0)
    + InQueue(avSetup, b)
    + InQueue(avOut, b)
    + Cardinality(PendingIn(b)) + InSendCall(b)
    + InReceiveFifo(b) + (IF b \in hist.held THEN 1 ELSE 0)

\* C13 as stated: with a caller that supplies and sends only buffers it owns,
\* every buffer is in exactly one ownership state.
C13_ExactlyOneOwner == \A b \in AllBuffers : Owners(b) = 1

\* C13, amended: with a caller that calls init once at cold start, supplies
\* and sends only buffers it owns, and calls send_packet on an IN endpoint only
\* when no earlier packet on that endpoint is outstanding (Ready, or sent and
\* not yet collected), every buffer is in exactly one ownership state.
C13_ExactlyOneOwnerOneSendPerEndpoint ==
    hist.strict => \A b \in AllBuffers : Owners(b) = 1

\* All five ownership states at once: buffer 0 received and held by the
\* caller, 1 in the receive FIFO, 2 in the OUT queue, 3 pending on an IN
\* endpoint, 4 in the SETUP queue and 5 free.
C13_Witness ==
    /\ hist.strict
    /\ 0 \in hist.held
    /\ InReceiveFifo(1) = 1
    /\ avOut = <<2>>
    /\ PendingIn(3) # {}
    /\ avSetup = <<4>>
    /\ 5 \in hist.free

\* C14: a successful recv_packet pops the word at the head of the receive FIFO
\* and nothing else, and returns buf_num = bits 0-4, size = bits 8-14,
\* is_setup = bit 19 and ep = bits 20-23 of that word, also when size is 0.
\* The first size bytes of data are then the first size bytes of that buffer,
\* every other byte of data is as before, and with size 0 neither memory is
\* accessed.  The FIFO is left with the later packets in their order.
C14_RecvDecodesHeadAndCopiesSize ==
    (op.name = "recv_packet" /\ ret = 0)
        => /\ op.fifo0 # <<>>
           /\ op.popped = <<Head(op.fifo0)>>
           /\ rxFifo = Tail(op.fifo0)
           /\ LET rx == Head(op.fifo0)
              IN  /\ outp.buf_num = FieldOf(rx, 0, 5)
                  /\ outp.size = FieldOf(rx, 8, 7)
                  /\ outp.is_setup = (19 \in rx)
                  /\ outp.ep = FieldOf(rx, 20, 4)
           /\ \A k \in 0..(DataLen - 1) :
                 data.rx[k] = IF k < outp.size
                              THEN MemRead(devmem, BufferOffset(outp.buf_num) + k)
                              ELSE op.rx0[k]
           /\ Len(op.stores) = (outp.size \div 4) + (outp.size % 4)
           /\ outp.size = 0 => (op.loads = <<>> /\ op.stores = <<>>)

\* Two packets waiting, a SETUP packet of 6 bytes for endpoint 9 in buffer 0
\* and then a zero-length OUT packet for endpoint 1 in buffer 4: the call
\* returns the first and leaves the second.
C14_Witness ==
    /\ op.name = "recv_packet" /\ ret = 0
    /\ Len(op.fifo0) = 2
    /\ outp.ep = 9 /\ outp.size = 6 /\ outp.is_setup /\ outp.buf_num = 0
    /\ rxFifo = <<ReceiveWord(4, 0, FALSE, 1)>>
    /\ data.rx[5] = RxPayloadByte(9, 5)
    /\ data.rx[6] = 238

(***************************************************************************)
(* Interrupt control: interrupt_enable and interrupt_disable.              *)
(***************************************************************************)
\* interruptEnable & static_cast<uint32_t>(interrupt): the mask not inverted.
WithoutInterruptsKeepsOnly(enable, interrupt) == enable \cap interrupt

\* interruptEnable & ~static_cast<uint32_t>(interrupt)
WithoutInterrupts(enable, interrupt) == enable \cap BitNot(interrupt)

\* interruptEnable | static_cast<uint32_t>(interrupt)
WithInterrupts(enable, interrupt) == enable \cup interrupt

InterruptEnable(interrupt) ==
    LET v == WithInterrupts(regs.interruptEnable, interrupt)
    IN  /\ op' = [name |-> "interrupt_enable", interrupt |-> interrupt,
                  enable0 |-> regs.interruptEnable, regs0 |-> regs]
        /\ regs' = [regs EXCEPT !.interruptEnable = v]
        /\ written' = <<Write("interruptEnable", v)>>
        /\ hist' = [hist EXCEPT !.calls = @ + 1,
                       !.last = [b \in AllBits |-> IF b \in interrupt THEN "enable"
                                                   ELSE hist.last[b]]]
        /\ UNCHANGED <<configIn, hwVars, ret, outp, memVars>>

InterruptDisable(interrupt) ==
    LET v == WithoutInterrupts(regs.interruptEnable, interrupt)
    IN  /\ op' = [name |-> "interrupt_disable", interrupt |-> interrupt,
                  enable0 |-> regs.interruptEnable, regs0 |-> regs]
        /\ regs' = [regs EXCEPT !.interruptEnable = v]
        /\ written' = <<Write("interruptEnable", v)>>
        /\ hist' = [hist EXCEPT !.calls = @ + 1,
                       !.last = [b \in AllBits |-> IF b \in interrupt THEN "disable"
                                                   ELSE hist.last[b]]]
        /\ UNCHANGED <<configIn, hwVars, ret, outp, memVars>>

\* UsbdevInterrupt: PacketReceived, AvailableSetupEmpty, PacketReceived |
\* PacketSent | AvailableBufferOverflow, and all eighteen interrupts.
InterruptArgs == {{0}, {17}, {0, 1, 9}, 0..17}

\* The hardware raises PacketReceived or AvailableBufferOverflow: the bit is
\* set in interruptState whether the interrupt is enabled or not.
HwRaisesInterrupt ==
    \E b \in {0, 9} :
       /\ b \notin regs.interruptState
       /\ regs' = [regs EXCEPT !.interruptState = @ \cup {b}]
       /\ op' = [name |-> "hw_interrupt", bit |-> b]
       /\ UNCHANGED <<configIn, hwVars, ret, written, outp, memVars, hist>>

\* The enable/disable calls the model follows.
MaxInterruptCalls == 3

\* interruptEnable at entry: reset, every bit set, and alternate bits.
EnablePatterns == {{}, AllBits, {b \in AllBits : b % 2 = 0}}

InitInterrupt ==
    /\ \E p \in EnablePatterns :
          /\ regs = [ResetRegs EXCEPT !.interruptEnable = p]
          /\ hist = [calls |-> 0, enable0 |-> p,
                     last |-> [b \in AllBits |-> "none"]]
    /\ configIn = ResetConfigIn
    /\ avSetup = <<>> /\ avOut = <<>> /\ rxFifo = <<>>
    /\ hwCap = OpenTitanCap
    /\ op = [name |-> "none"]
    /\ ret = 0
    /\ written = <<>>
    /\ outp = NoOutp
    /\ devmem = <<>>
    /\ data = NoData

CallInterruptEnable ==
    /\ hist.calls < MaxInterruptCalls
    /\ \E interrupt \in InterruptArgs : InterruptEnable(interrupt)

CallInterruptDisable ==
    /\ hist.calls < MaxInterruptCalls
    /\ \E interrupt \in InterruptArgs : InterruptDisable(interrupt)

NextInterrupt ==
    \/ CallInterruptEnable
    \/ CallInterruptDisable
    \/ HwRaisesInterrupt

SpecInterrupt == InitInterrupt /\ [][NextInterrupt]_vars

\* C15: interrupt_enable(mask) sets and interrupt_disable(mask) clears the bits
\* of mask in interruptEnable, the other bits of interruptEnable are as they
\* were at entry, and no other register (interruptState among them) changes;
\* at any time a bit of interruptEnable is set if the last call whose mask
\* held it was an enable, clear if it was a disable, and as at the start if
\* there was none.
C15_EnableDisableExactlyMask ==
    /\ op.name = "interrupt_enable"
          => /\ op.interrupt \subseteq regs.interruptEnable
             /\ regs.interruptEnable \ op.interrupt = op.enable0 \ op.interrupt
             /\ \A r \in RegNames \ {"interruptEnable"} : regs[r] = op.regs0[r]
    /\ op.name = "interrupt_disable"
          => /\ op.interrupt \cap regs.interruptEnable = {}
             /\ regs.interruptEnable \ op.interrupt = op.enable0 \ op.interrupt
             /\ \A r \in RegNames \ {"interruptEnable"} : regs[r] = op.regs0[r]
    /\ hist.calls > 0
          => \A b \in AllBits :
                b \in regs.interruptEnable
                   <=> \/ hist.last[b] = "enable"
                       \/ hist.last[b] = "none" /\ b \in hist.enable0

\* PacketReceived is pending and stays pending through a disable of three
\* interrupts that follows an enable of all eighteen: bits 0, 1 and 9 are
\* clear, 17 is still set, and bit 18 is as it was at the start.
C15_Witness ==
    /\ op.name = "interrupt_disable" /\ op.interrupt = {0, 1, 9}
    /\ op.enable0 = AllBits
    /\ hist.last[17] = "enable"
    /\ 0 \in regs.interruptState
    /\ 17 \in regs.interruptEnable /\ 0 \notin regs.interruptEnable
    /\ 18 \in regs.interruptEnable /\ hist.last[18] = "none"

(***************************************************************************)
(* The connection state: connect, disconnect and connected among the other *)
(* calls that write registers (set_device_address, init and the endpoint   *)
(* configuration).  hist.link is the most recent of connect / disconnect.  *)
(***************************************************************************)
\* The counted calls (all but set_device_address) the model follows.
MaxLinkCalls == 4

LinkCounted == hist.calls < MaxLinkCalls

InitLink ==
    /\ \E p \in ControlPatterns :
          /\ regs = [r \in RegNames |-> p]
          /\ hist = [cfg |-> [e \in 0..(MaxEndpoints - 1) |-> EpHist],
                     regs0 |-> [r \in RegNames |-> p],
                     configIn0 |-> ResetConfigIn,
                     calls |-> 0,
                     link |-> "none"]
    /\ configIn = ResetConfigIn
    /\ avSetup = <<>> /\ avOut = <<>> /\ rxFifo = <<>>
    /\ hwCap = OpenTitanCap
    /\ op = [name |-> "none"]
    /\ ret = 0
    /\ written = <<>>
    /\ outp = NoOutp
    /\ devmem = <<>>
    /\ data = NoData

LinkConnect ==
    /\ LinkCounted
    /\ DoConnect
    /\ hist' = [hist EXCEPT !.calls = @ + 1, !.link = "connect"]

LinkDisconnect ==
    /\ LinkCounted
    /\ DoDisconnect
    /\ hist' = [hist EXCEPT !.calls = @ + 1, !.link = "disconnect"]

LinkSetDeviceAddress == \E address \in {42, 127, 128} : SetDeviceAddress(address)

LinkInit ==
    /\ LinkCounted
    /\ DoInit
    /\ hist' = [hist EXCEPT !.calls = @ + 1]

LinkConfigure ==
    /\ LinkCounted
    /\ \E ep \in {0, MaxEndpoints} :
          \/ ConfigureOutEndpoint(ep, TRUE, TRUE, FALSE)
          \/ ConfigureInEndpoint(ep, TRUE, FALSE)
          \/ SetEpStalling(ep, TRUE)

NextLink ==
    \/ LinkConnect
    \/ LinkDisconnect
    \/ LinkSetDeviceAddress
    \/ LinkInit
    \/ LinkConfigure

SpecLink == InitLink /\ [][NextLink]_vars

\* connected() follows the most recent of connect / disconnect; with neither
\* called it is the Enable bit the control register had at the start.
ConnectedFollowsLastCall ==
    /\ hist.link = "connect" => Connected
    /\ hist.link = "disconnect" => ~Connected
    /\ hist.link = "none" => (Connected <=> 0 \in hist.regs0.usbControl)

\* connect and disconnect store usbControl with only bit 0 changed; init
\* leaves usbControl, and so connected(), as it was.
ConnectChangesOnlyEnable ==
    /\ op'.name \in {"connect", "disconnect"}
          => /\ regs'.usbControl \ {0} = regs.usbControl \ {0}
             /\ FieldOf(regs'.usbControl, 16, 7) = FieldOf(regs.usbControl, 16, 7)
             /\ \A r \in RegNames \ {"usbControl"} : regs'[r] = regs[r]
             /\ configIn' = configIn
             /\ Len(written') = 1 /\ written'[1].reg = "usbControl"
    /\ op'.name = "init"
          => /\ regs'.usbControl = regs.usbControl
             /\ Connected' = Connected

\* C16: after any sequence of connect, disconnect, set_device_address, init
\* and endpoint configuration calls, connected() is true exactly when the most
\* recent of connect / disconnect was connect (with neither called, when the
\* Enable bit was set at the start: false on a zeroed register); connect and
\* disconnect change only the Enable bit of usbControl, the device address
\* stays, and init does not connect the device.
C16_ConnectedIsLastOfConnectDisconnect ==
    []ConnectedFollowsLastCall /\ [][ConnectChangesOnlyEnable]_vars

\* Address 42 set, then connect, disconnect and init, on a register that
\* started zeroed: not connected, the address is still 42.
C16_Witness ==
    /\ op.name = "init"
    /\ hist.link = "disconnect"
    /\ hist.calls = 3
    /\ ~Connected
    /\ FieldOf(regs.usbControl, 16, 7) = 42
    /\ hist.regs0.usbControl = {}
    /\ regs.phyConfig = UseDifferentialReceiver

(***************************************************************************)
(* Sonata's pulse-width modulation driver, SonataPulseWidthModulation.     *)
(*                                                                         *)
(* Here `regs` is the array outputs[Instances] (index -> [dutyCycle,       *)
(* period]), hwCap.instances the template argument, and `devmem` the       *)
(* memory that follows the array: a store to outputs[index] with index >=  *)
(* Instances is outside the object, which is undefined behaviour; on this  *)
(* platform it either traps (the capability's bounds end with the array)   *)
(* or lands in the memory behind the array.                                *)
(***************************************************************************)
\* using SonataPwm = SonataPulseWidthModulation<6>
SonataPwmInstances == 6

\* using SonataLcdPwm = SonataPulseWidthModulation<1>
SonataLcdPwmInstances == 1

\* if (index < Instances) { return false; }
OutputSetRejects(index, instances) == index < instances

\* outputs[index].period = period; outputs[index].dutyCycle = dutyCycle;
\* for an index inside the array.
OutputSetStores(index, period, dutyCycle) ==
    /\ regs' = [regs EXCEPT ![index] = [dutyCycle |-> dutyCycle, period |-> period]]
    /\ written' = <<Write(<<"outputs", index, "period">>, period),
                    Write(<<"outputs", index, "dutyCycle">>, dutyCycle)>>
    /\ UNCHANGED devmem

\* The same two stores for an index outside the array, where they do not
\* trap: 8 bytes per instance, dutyCycle first.
OutputSetStoresOutside(index, period, dutyCycle) ==
    /\ devmem' = StoreWord(StoreWord(devmem, 8 * index + 4, [lo |-> period, hi |-> 0]),
                           8 * index, [lo |-> dutyCycle, hi |-> 0])
    /\ written' = <<Write(<<"outputs", index, "period">>, period),
                    Write(<<"outputs", index, "dutyCycle">>, dutyCycle)>>
    /\ UNCHANGED regs

OutputSet(index, period, dutyCycle) ==
    /\ IF OutputSetRejects(index, hwCap.instances)
       THEN /\ ret' = FALSE
            /\ written' = <<>>
            /\ op' = [name |-> "output_set", index |-> index, period |-> period,
                      dutyCycle |-> dutyCycle, trapped |-> FALSE]
            /\ UNCHANGED <<regs, devmem>>
       ELSE IF index < hwCap.instances
            THEN /\ OutputSetStores(index, period, dutyCycle)
                 /\ ret' = TRUE
                 /\ op' = [name |-> "output_set", index |-> index, period |-> period,
                           dutyCycle |-> dutyCycle, trapped |-> FALSE]
            ELSE \/ /\ OutputSetStoresOutside(index, period, dutyCycle)
                    /\ ret' = TRUE
                    /\ op' = [name |-> "output_set", index |-> index,
                              period |-> period, dutyCycle |-> dutyCycle,
                              trapped |-> FALSE]
                 \/ /\ op' = [name |-> "output_set", index |-> index,
                              period |-> period, dutyCycle |-> dutyCycle,
                              trapped |-> TRUE]
                    /\ written' = <<>>
                    /\ UNCHANGED <<regs, devmem, ret>>
    /\ UNCHANGED <<configIn, avSetup, avOut, rxFifo, hwCap, outp, data, hist>>

\* The uint8_t periods and duty cycles the model passes.
PwmPeriods == {0, 200, 255}

PwmDutyCycles == {0, 31, 255}

InitPwm ==
    /\ hwCap \in {[instances |-> SonataPwmInstances],
                  [instances |-> SonataLcdPwmInstances]}
    /\ regs = [i \in 0..(hwCap.instances - 1) |-> [dutyCycle |-> 0, period |-> 0]]
    /\ configIn = ResetConfigIn
    /\ avSetup = <<>> /\ avOut = <<>> /\ rxFifo = <<>>
    /\ op = [name |-> "none"]
    /\ ret = FALSE
    /\ written = <<>>
    /\ outp = NoOutp
    /\ devmem = <<>>
    /\ data = NoData
    /\ hist = [calls |-> 0]

\* An index inside the array: the first and the last output.
CallOutputSetInRange ==
    \E index \in {0, hwCap.instances - 1}, period \in PwmPeriods,
       dutyCycle \in PwmDutyCycles :
          OutputSet(index, period, dutyCycle)

\* An index behind the array.
CallOutputSetOutOfRange ==
    /\ devmem = <<>>
    /\ \E index \in {hwCap.instances, hwCap.instances + 1}, period \in PwmPeriods,
          dutyCycle \in PwmDutyCycles :
             OutputSet(index, period, dutyCycle)

NextPwm ==
    \/ CallOutputSetInRange
    \/ CallOutputSetOutOfRange

SpecPwm == InitPwm /\ [][NextPwm]_vars

\* C17 as stated: output_set with index < Instances stores period and
\* dutyCycle in outputs[index] and returns true; with index >= Instances it
\* returns false and stores nothing.
C17_OutputSetStoresWhenValid ==
    op.name = "output_set"
        => IF op.index < hwCap.instances
           THEN /\ ret = TRUE
                /\ regs[op.index].period = op.period
                /\ regs[op.index].dutyCycle = op.dutyCycle
           ELSE /\ ret = FALSE
                /\ written = <<>>
                /\ ~op.trapped

\* What the code does: the test is inverted.  Every index inside the array is
\* rejected, with no store, and every index behind the array is accepted: the
\* call stores outside the array or traps, and outputs is never written.
C17_OutputSetRejectsEveryValidIndex ==
    /\ \A i \in DOMAIN regs : regs[i] = [dutyCycle |-> 0, period |-> 0]
    /\ op.name = "output_set"
          => IF op.index < hwCap.instances
             THEN ret = FALSE /\ written = <<>> /\ ~op.trapped
             ELSE \/ op.trapped /\ written = <<>>
                  \/ ret = TRUE /\ Len(written) = 2 /\ devmem # <<>>

\* output_set(0, 200, 31) on SonataPwm has returned false; outputs[0] is as
\* it was after reset.
C17_Witness ==
    /\ op.name = "output_set" /\ op.index = 0 /\ op.period = 200 /\ op.dutyCycle = 31
    /\ hwCap.instances = SonataPwmInstances
    /\ ret = FALSE
    /\ regs[0] = [dutyCycle |-> 0, period |-> 0]

(***************************************************************************)
(* Sonata's GPIO driver, SonataGpioBase and its instance types.            *)
(*                                                                         *)
(* Here `regs` is the register block [output, input, debouncedInput,       *)
(* outputEnable] and hwCap.type the instance type.  In platform-gpio.hh    *)
(* SonataGpioBase is a plain struct: its methods call OutputMask(),        *)
(* InputMask() and OutputEnableMask() unqualified, which names the static  *)
(* functions of SonataGpioBase itself, not those a derived type declares.  *)
(* In the other variant SonataGpioBase<T> is a template and its methods    *)
(* name T::OutputMask, T::InputMask and T::OutputEnableMask.               *)
(***************************************************************************)
GpioType(name, template, outputMask, inputMask, outputEnableMask) ==
    [name |-> name, template |-> template, OutputMask |-> outputMask,
     InputMask |-> inputMask, OutputEnableMask |-> outputEnableMask]

\* The instance types of platform-gpio.hh, with the masks they declare.
SonataGpioBoard == GpioType("SonataGpioBoard", FALSE, 0..7, 0..16, {})

SonataGpioRaspberryPiHat ==
    GpioType("SonataGpioRaspberryPiHat", FALSE, 0..27, 0..27, 0..27)

SonataGpioArduinoShield ==
    GpioType("SonataGpioArduinoShield", FALSE, 0..13, 0..13, 0..13)

SonataGpioPmod0 == GpioType("SonataGpioPmod0", FALSE, 0..7, 0..7, 0..7)

SonataGpioPmod1 == GpioType("SonataGpioPmod1", FALSE, 0..7, 0..7, 0..7)

SonataGpioPmodC == GpioType("SonataGpioPmodC", FALSE, 0..5, 0..5, 0..5)

\* The instance types of the template variant.
SonataGpioGeneral == GpioType("SonataGpioGeneral", TRUE, AllBits, AllBits, {})

SonataGpioRaspberryPiHatT ==
    GpioType("SonataGpioRaspberryPiHat<T>", TRUE, 0..27, 0..27, 0..27)

SonataGpioArduinoShieldT ==
    GpioType("SonataGpioArduinoShield<T>", TRUE, 0..17, 0..17, 0..17)

SonataGpioPmod == GpioType("SonataGpioPmod", TRUE, 0..15, 0..15, 0..15)

GpioTypes ==
    {SonataGpioBoard, SonataGpioRaspberryPiHat, SonataGpioArduinoShield,
     SonataGpioPmod0, SonataGpioPmod1, SonataGpioPmodC,
     SonataGpioGeneral, SonataGpioRaspberryPiHatT, SonataGpioArduinoShieldT,
     SonataGpioPmod}

\* The mask a method of SonataGpioBase uses on an instance of type t: T::Mask
\* in the template, SonataGpioBase's own 0xFFFF'FFFF in the plain struct.
MaskUsed(t, mask) == IF t.template THEN t[mask] ELSE AllBits

\* gpio_bit(index, mask) == (1 << index) & mask.  A shift by 32 or more is
\* undefined: `wraps` chooses between the two results a build gives, the
\* shift by index % 32 of the processor's instruction and 0.
GpioBit(index, mask, wraps) ==
    IF index < 32 THEN {index} \cap mask
    ELSE IF wraps THEN {index % 32} \cap mask
    ELSE {}

GpioCall(name, index, value, wraps) ==
    [name |-> name, index |-> index, value |-> value, wraps |-> wraps, regs0 |-> regs]

SetOutput(index, value, wraps) ==
    LET Bit == GpioBit(index, MaskUsed(hwCap.type, "OutputMask"), wraps)
        v == IF value THEN regs.output \cup Bit ELSE regs.output \cap BitNot(Bit)
    IN  /\ regs' = [regs EXCEPT !.output = v]
        /\ written' = <<Write("output", v)>>
        /\ op' = GpioCall("set_output", index, value, wraps)
        /\ UNCHANGED ret

SetOutputEnable(index, enable, wraps) ==
    LET Bit == GpioBit(index, MaskUsed(hwCap.type, "OutputEnableMask"), wraps)
        v == IF enable THEN regs.outputEnable \cup Bit
             ELSE regs.outputEnable \cap BitNot(Bit)
    IN  /\ regs' = [regs EXCEPT !.outputEnable = v]
        /\ written' = <<Write("outputEnable", v)>>
        /\ op' = GpioCall("set_output_enable", index, enable, wraps)
        /\ UNCHANGED ret

ReadInput(index, wraps) ==
    /\ ret' = (regs.input \cap GpioBit(index, MaskUsed(hwCap.type, "InputMask"), wraps) # {})
    /\ written' = <<>>
    /\ op' = GpioCall("read_input", index, FALSE, wraps)
    /\ UNCHANGED regs

ReadDebouncedInput(index, wraps) ==
    /\ ret' = (regs.debouncedInput
                 \cap GpioBit(index, MaskUsed(hwCap.type, "InputMask"), wraps) # {})
    /\ written' = <<>>
    /\ op' = GpioCall("read_debounced_input", index, FALSE, wraps)
    /\ UNCHANGED regs

\* The pin indices the model passes: inside every mask, outside the 8-bit
\* masks, outside the 17- and 18-bit masks, and beyond the register.
GpioIndices == {3, 9, 20, 35}

\* The GPIO calls the model follows.
MaxGpioCalls == 2

InitGpio ==
    /\ hwCap \in {[type |-> t] : t \in GpioTypes}
    /\ \E p \in {{}, AllBits} :
          regs = [output |-> p, outputEnable |-> p,
                  input |-> AllBits \ p, debouncedInput |-> AllBits \ p]
    /\ configIn = ResetConfigIn
    /\ avSetup = <<>> /\ avOut = <<>> /\ rxFifo = <<>>
    /\ op = [name |-> "none"]
    /\ ret = FALSE
    /\ written = <<>>
    /\ outp = NoOutp
    /\ devmem = <<>>
    /\ data = NoData
    /\ hist = [calls |-> 0]

GpioFrame ==
    /\ hist.calls < MaxGpioCalls
    /\ hist' = [hist EXCEPT !.calls = @ + 1]
    /\ UNCHANGED <<configIn, avSetup, avOut, rxFifo, hwCap, outp, devmem, data>>

\* The outcomes of the shift matter for an index of 32 or more only.
Wraps(index) == IF index < 32 THEN {FALSE} ELSE BOOLEAN

CallSetOutput ==
    /\ GpioFrame
    /\ \E index \in GpioIndices, value \in BOOLEAN :
          \E wraps \in Wraps(index) : SetOutput(index, value, wraps)

CallSetOutputEnable ==
    /\ GpioFrame
    /\ \E index \in GpioIndices, enable \in BOOLEAN :
          \E wraps \in Wraps(index) : SetOutputEnable(index, enable, wraps)

CallReadInput ==
    /\ GpioFrame
    /\ \E index \in GpioIndices : \E wraps \in Wraps(index) : ReadInput(index, wraps)

CallReadDebouncedInput ==
    /\ GpioFrame
    /\ \E index \in GpioIndices :
          \E wraps \in Wraps(index) : ReadDebouncedInput(index, wraps)

NextGpio ==
    \/ CallSetOutput
    \/ CallSetOutputEnable
    \/ CallReadInput
    \/ CallReadDebouncedInput

SpecGpio == InitGpio /\ [][NextGpio]_vars

\* Pin index i is a pin of the mask.
PinIn(i, mask) == i < 32 /\ i \in mask

\* The statement of C18 for the instance types in T.
MasksRespected(T) ==
    hwCap.type \in T
        => /\ (op.name \in {"read_input", "read_debounced_input"}
                 /\ ~PinIn(op.index, hwCap.type.InputMask))
              => ret = FALSE
           /\ (op.name = "set_output" /\ ~PinIn(op.index, hwCap.type.OutputMask))
              => regs = op.regs0
           /\ (op.name = "set_output_enable"
                 /\ ~PinIn(op.index, hwCap.type.OutputEnableMask))
              => regs = op.regs0

\* C18 as stated: on every instance type of platform-gpio.hh, read_input and
\* read_debounced_input return false for a pin index outside the type's input
\* mask, and set_output / set_output_enable with a pin index outside the
\* type's output / output-enable mask leave the registers unchanged.
C18_MasksOfInstanceTypeRespected ==
    MasksRespected({t \in GpioTypes : ~t.template})

\* What the code does on the instance types of platform-gpio.hh: for every
\* index below 32 the methods act on bit index of the register whatever the
\* masks of the type are.
C18_PlainStructIgnoresMasks ==
    (~hwCap.type.template /\ op.name # "none" /\ op.index < 32)
        => /\ op.name = "read_input" => (ret <=> op.index \in regs.input)
           /\ op.name = "read_debounced_input"
                => (ret <=> op.index \in regs.debouncedInput)
           /\ op.name = "set_output"
                => /\ op.index \in regs.output <=> op.value
                   /\ regs.output \ {op.index} = op.regs0.output \ {op.index}
           /\ op.name = "set_output_enable"
                => /\ op.index \in regs.outputEnable <=> op.value
                   /\ regs.outputEnable \ {op.index}
                        = op.regs0.outputEnable \ {op.index}

\* set_output_enable(3, true) on SonataGpioBoard, whose output-enable mask is
\* 0, has set bit 3 of outputEnable.
C18_Witness ==
    /\ hwCap.type = SonataGpioBoard
    /\ op.name = "set_output_enable" /\ op.index = 3 /\ op.value
    /\ op.regs0.outputEnable = {}
    /\ regs.outputEnable = {3}

\* The smaller of two numbers.
Least(a, b) == IF a <= b THEN a ELSE b

\* C19 as stated: supply_buffers stops as soon as either queue is observed
\* full, so no buffer is written after a status that reports the SETUP queue
\* or the OUT queue full.
C19_StopsWhenEitherQueueFull ==
    op.name = "supply_buffers"
        => \A i \in 1..Len(QueueWrites) :
              30 \notin QueueWrites[i].status /\ 23 \notin QueueWrites[i].status

\* C19, amended: supply_buffers stops only when both queues are observed
\* full.  With the SETUP queue full and the OUT queue not, it goes on and
\* assigns the following bits to the OUT queue, so a call places as many
\* buffers as the bitmap offers and the two queues together have room for.
C19_StopsOnlyWhenBothQueuesFull ==
    (op.name = "supply_buffers" /\ op.buf_avail \subseteq AllBuffers)
        => /\ \A i \in 1..Len(QueueWrites) :
                 ~(30 \in QueueWrites[i].status /\ 23 \in QueueWrites[i].status)
           /\ Len(QueueWrites)
                = Least(Cardinality(op.buf_avail),
                        (hwCap.setup - op.setup0) + (hwCap.out - op.out0))
           /\ ret # {} => (SetupReportsFull /\ OutReportsFull)
           /\ ret = {} => Assigned = op.buf_avail

\* The SETUP queue was full at entry and the OUT queue empty: the call has
\* gone on to write buffers to the OUT queue until that was full too.
C19_Witness ==
    /\ op.name = "supply_buffers"
    /\ op.setup0 = hwCap.setup /\ op.out0 = 0
    /\ Len(QueueWrites) = hwCap.out
    /\ \A i \in 1..Len(QueueWrites) :
          IsOutWrite(QueueWrites[i]) /\ 30 \in QueueWrites[i].status
    /\ ret # {}

(***************************************************************************)
(* The extent of the transfers of send_packet and recv_packet: every size  *)
(* a caller can pass around the packet length, and packets of every length *)
(* the hardware receives (at most MaxPacketLen bytes).                     *)
(***************************************************************************)
\* The packets (sent or received) the model follows.
MaxExtentSteps == 2

\* The uint8_t sizes the model passes to send_packet.
ExtentSizes == {0, MaxPacketLen - 1, MaxPacketLen, MaxPacketLen + 1, DataLen}

ExtentBufs == {0, 12, NumBuffers - 1}

InitExtent ==
    /\ regs = [ResetRegs EXCEPT !.phyConfig = UseDifferentialReceiver]
    /\ configIn = ResetConfigIn
    /\ avSetup = <<0, 1, 2, 3>>
    /\ avOut = <<4, 5, 6, 7, 8, 9, 10, 11>>
    /\ rxFifo = <<>>
    /\ hwCap = OpenTitanCap
    /\ op = [name |-> "init"]
    /\ ret = 0
    /\ written = <<>>
    /\ outp = [NoOutp EXCEPT !.buf_avail = 12..(NumBuffers - 1)]
    /\ devmem = <<>>
    /\ data = [tx |-> [k \in 0..(DataLen - 1) |-> PatternByte(1, k)], rx |-> RxFill]
    /\ hist = [calls |-> 0, limit |-> MaxExtentSteps, runs |-> 1,
               in |-> [e \in 0..(MaxEndpoints - 1) |-> NoSend]]

ExtentSend ==
    /\ hist.calls < hist.limit
    /\ \E buf_num \in ExtentBufs, size \in ExtentSizes : SendCopy(buf_num, 0, size)

ExtentHwReceive ==
    \E size \in {0, 3, MaxPacketLen} : HwReceive(FALSE, 1, size)

NextExtent ==
    \/ ExtentSend
    \/ SendConfigure
    \/ SendReady
    \/ HwCompletesSend
    \/ ExtentHwReceive
    \/ RecvPacket

SpecExtent == InitExtent /\ [][NextExtent]_vars

\* The access lies in the 64 bytes of packet buffer b.
InBuffer(access, b) ==
    /\ access.addr >= BufferOffset(b)
    /\ access.addr + access.width <= BufferOffset(b) + MaxPacketLen

\* C20 as stated: whatever the buffer and the size, send_packet stores only
\* to, and recv_packet loads only from, the 64 bytes of the named buffer.
C20_TransfersStayInsideBuffer ==
    /\ op.name = "send_packet"
          => \A i \in 1..Len(op.stores) : InBuffer(op.stores[i], op.buf_num)
    /\ op.name = "recv_packet"
          => \A i \in 1..Len(op.loads) : InBuffer(op.loads[i], outp.buf_num)

\* What the code does: send_packet copies as many bytes as its size argument
\* says, in words, with no test against MaxPacketLen.  Up to 64 bytes the
\* stores stay in the buffer; from 65 bytes on they run into the memory after
\* it.  recv_packet stays in the buffer for the packets of up to 64 bytes that
\* the hardware delivers.
C20_TransfersFollowSizeArgument ==
    /\ op.name = "send_packet"
          => /\ Len(op.stores) = (op.size + 3) \div 4
             /\ \A i \in 1..Len(op.stores) :
                   op.stores[i] = Access(BufferOffset(op.buf_num) + 4 * (i - 1), 4)
             /\ op.size <= MaxPacketLen
                   => \A i \in 1..Len(op.stores) : InBuffer(op.stores[i], op.buf_num)
             /\ op.size > MaxPacketLen
                   => ~InBuffer(op.stores[Len(op.stores)], op.buf_num)
    /\ (op.name = "recv_packet" /\ ret = 0)
          => /\ outp.size <= MaxPacketLen
             /\ \A i \in 1..Len(op.loads) : InBuffer(op.loads[i], outp.buf_num)

\* send_packet(12, 0, data, 65): the seventeenth store is to the first word of
\* buffer 13, which now holds byte 64 of the caller's data.
C20_Witness ==
    /\ op.name = "send_packet" /\ op.buf_num = 12 /\ op.size = MaxPacketLen + 1
    /\ Len(op.stores) = 17
    /\ op.stores[17].addr = BufferOffset(13)
    /\ MemRead(devmem, BufferOffset(13)) = data.tx[MaxPacketLen]
    /\ data.tx[MaxPacketLen] # 0

(***************************************************************************)
(* Backpressure: the caller keeps the bitmap supply_buffers returned and   *)
(* calls supply_buffers with it again, while the hardware takes buffers    *)
(* from the two queues.                                                    *)
(***************************************************************************)
\* The hardware instances and the bitmaps of free buffers the caller starts
\* with: more buffers than the two queues have places.
RetryStarts ==
    {[cap |-> [setup |-> 1, out |-> 2, rx |-> 2], given |-> 20..(NumBuffers - 1)],
     [cap |-> [setup |-> 1, out |-> 2, rx |-> 2],
      given |-> {b \in AllBuffers : b % 4 = 3}],
     [cap |-> OpenTitanCap, given |-> 18..(NumBuffers - 1)]}

\* hist.given: the bitmap the caller started with; hist.held: the bitmap it
\* holds now; hist.count[b]: the writes of b to a queue register so far;
\* hist.taken: the buffers the hardware has taken from the queues.
InitRetry ==
    /\ regs = ResetRegs
    /\ configIn = ResetConfigIn
    /\ avSetup = <<>> /\ avOut = <<>> /\ rxFifo = <<>>
    /\ op = [name |-> "none"]
    /\ ret = {}
    /\ written = <<>>
    /\ outp = NoOutp
    /\ devmem = <<>>
    /\ data = NoData
    /\ \E start \in RetryStarts :
          /\ hwCap = start.cap
          /\ hist = [given |-> start.given, held |-> start.given,
                     count |-> [b \in AllBuffers |-> 0], taken |-> {}]

\* buf_avail = supply_buffers(buf_avail), on an interrupt or at the next poll.
RetrySupply ==
    /\ DoSupplyBuffers(hist.held)
    /\ hist' = [hist EXCEPT
                  !.held = ret',
                  !.count = [b \in AllBuffers |->
                               @[b] + Cardinality({i \in 1..Len(written') :
                                                     written'[i].value = b})]]

RetryHwTakeSetup ==
    /\ DoHwTakeSetup
    /\ hist' = [hist EXCEPT !.taken = @ \cup {Head(avSetup)}]

RetryHwTakeOut ==
    /\ DoHwTakeOut
    /\ hist' = [hist EXCEPT !.taken = @ \cup {Head(avOut)}]

NextRetry ==
    \/ RetrySupply
    \/ RetryHwTakeSetup
    \/ RetryHwTakeOut

\* A further call would change nothing: nothing can be placed, and the call
\* before was the same call from the same state.
RetryChangesNothing ==
    /\ hist.held = {} \/ (SetupReportsFull /\ OutReportsFull)
    /\ op = [name |-> "supply_buffers", buf_avail |-> hist.held,
             setup0 |-> Len(avSetup), out0 |-> Len(avOut)]
    /\ written = <<>>
    /\ ret = hist.held

\* Weak fairness of RetrySupply, with its enabling condition written out.
CallerKeepsCalling == []<>RetryChangesNothing \/ []<><<RetrySupply>>_vars

\* The caller keeps calling and the hardware keeps receiving SETUP and OUT
\* packets.
SpecRetry ==
    /\ InitRetry
    /\ [][NextRetry]_vars
    /\ CallerKeepsCalling
    /\ WF_vars(RetryHwTakeSetup)
    /\ WF_vars(RetryHwTakeOut)

\* A call is one pass: its writes are of ascending buffer numbers, at most
\* NumBuffers of them, each of a buffer of the bitmap passed, and what is
\* returned is the rest of that bitmap.
OnePass ==
    op.name = "supply_buffers"
        => /\ Len(written) <= NumBuffers
           /\ StrictlyAscending(written)
           /\ Assigned \subseteq op.buf_avail
           /\ ret = op.buf_avail \ Assigned
           /\ hist.held = ret

\* No buffer is written to a queue register twice, none but the caller's; a
\* buffer is either still held or has been written, and a buffer written is
\* in one of the queues until the hardware takes it.
EachAtMostOnce ==
    \A b \in AllBuffers :
        /\ hist.count[b] <= 1
        /\ hist.count[b] = 1 <=> b \in hist.given \ hist.held
        /\ hist.count[b] = 1
              => InQueue(avSetup, b) + InQueue(avOut, b)
                 + (IF b \in hist.taken THEN 1 ELSE 0) = 1

AllAssigned ==
    /\ hist.held = {}
    /\ \A b \in hist.given : hist.count[b] = 1

\* C21: supply_buffers returns after one pass over the 32 indices, and with
\* the caller calling again with the residual and the hardware taking queued
\* buffers, every buffer of the caller's bitmap is in the end written to a
\* reception queue, each exactly once.
C21_RetryAssignsEveryBufferOnce ==
    /\ [](OnePass /\ EachAtMostOnce)
    /\ <>[]AllAssigned

\* On the smallest instance (three queue places) all twelve buffers have been
\* placed; the last call placed what the earlier ones had left over.
C21_Witness ==
    /\ hwCap.setup = 1
    /\ hist.given = 20..(NumBuffers - 1)
    /\ AllAssigned
    /\ op.name = "supply_buffers"
    /\ op.buf_avail = {NumBuffers - 1}
    /\ op.setup0 + op.out0 > 0

(***************************************************************************)
(* An IN packet waiting for collection by the host, and every operation of *)
(* the driver called in between.                                           *)
(***************************************************************************)
\* The driver calls the model follows.
MaxCancelSteps == 3

\* hist.in[e]: the caller's record of endpoint e; hist.free: the buffers the
\* caller holds; hist.strict: the caller has so far called send_packet only
\* for endpoints with no packet outstanding.
InitCancel ==
    /\ regs = [ResetRegs EXCEPT !.phyConfig = UseDifferentialReceiver]
    /\ configIn = ResetConfigIn
    /\ avSetup = <<0, 1, 2, 3>>
    /\ avOut = <<4, 5, 6, 7, 8, 9, 10, 11>>
    /\ rxFifo = <<>>
    /\ hwCap = OpenTitanCap
    /\ op = [name |-> "init"]
    /\ ret = 0
    /\ written = <<>>
    /\ outp = [NoOutp EXCEPT !.buf_avail = 12..(NumBuffers - 1)]
    /\ devmem = <<>>
    /\ data = [tx |-> [k \in 0..(DataLen - 1) |-> PatternByte(1, k)], rx |-> RxFill]
    /\ hist = [calls |-> 0, limit |-> MaxCancelSteps, runs |-> 1,
               in |-> [e \in 0..(MaxEndpoints - 1) |-> NoSend],
               cfg |-> [e \in 0..(MaxEndpoints - 1) |-> EpHist],
               last |-> [b \in AllBits |-> "none"],
               free |-> 12..(NumBuffers - 1),
               strict |-> TRUE]

CancelCounted == DriverIdle /\ hist.calls < hist.limit

\* send_packet(b, ep, data, 5) with b the lowest buffer the caller holds.
CancelSend ==
    /\ CancelCounted
    /\ \E ep \in {0, MaxEndpoints - 1} :
          LET buf_num == CHOOSE x \in hist.free : \A y \in hist.free : x <= y
          IN  /\ DoSendCopy(buf_num, ep, 5)
              /\ hist' = [hist EXCEPT !.calls = @ + 1,
                                      !.in[ep] = [buf |-> buf_num, st |-> "sending"],
                                      !.free = @ \ {buf_num},
                                      !.strict = @ /\ hist.in[ep].st = "idle"]

CancelCollect == CancelCounted /\ PacketCollected

CancelConfigure ==
    /\ CancelCounted
    /\ \/ ConfigureInEndpoint(0, FALSE, FALSE)
       \/ ConfigureOutEndpoint(0, TRUE, TRUE, FALSE)
       \/ SetEpStalling(0, TRUE)

CancelLink ==
    /\ CancelCounted
    /\ \/ DoConnect
       \/ DoDisconnect
       \/ DoInit
       \/ DoSupplyBuffers(outp.buf_avail)
    /\ hist' = [hist EXCEPT !.calls = @ + 1]

CancelAddress == CancelCounted /\ SetDeviceAddress(42)

CancelInterrupt ==
    /\ CancelCounted
    /\ \/ InterruptEnable({1})
       \/ InterruptDisable({1})

CancelHwReceive == rxFifo = <<>> /\ HwReceive(FALSE, 1, 6)

CancelRecv == CancelCounted /\ RecvPacket

NextCancel ==
    \/ CancelSend
    \/ SendConfigure
    \/ SendReady
    \/ HwCompletesSend
    \/ CancelCollect
    \/ CancelConfigure
    \/ CancelLink
    \/ CancelAddress
    \/ CancelInterrupt
    \/ CancelHwReceive
    \/ CancelRecv

SpecCancel == InitCancel /\ [][NextCancel]_vars

Ready(e) == configIn[e] \cap ReadyBit # {}

\* The hardware completes the transmission of endpoint e: in-sent is set and
\* Ready taken back, buffer id and size stay.
Completes(e) ==
    /\ e \in regs'.inSent
    /\ configIn'[e] = configIn[e] \ ReadyBit

\* A step leaves a Ready config-in register alone or is the completion.
ReadyKept(e) == Ready(e) => (configIn'[e] = configIn[e] \/ Completes(e))

\* packet_collected reports an endpoint only when the hardware had set its
\* in-sent bit.
CollectedOnlyAfterSent ==
    (op.name = "packet_collected" /\ ret = 0) => outp.ep \in op.sent0

\* C22 as stated: no step of the driver, a further send_packet for the same
\* endpoint included, changes a config-in register whose Ready bit is set;
\* only the hardware's completion does.
C22_NoDriverStepTouchesReady ==
    [][\A e \in 0..(MaxEndpoints - 1) : ReadyKept(e)]_vars

\* The first store of send_packet to the config-in register of its endpoint.
IsSendConfigure(e) ==
    /\ op.name = "send_packet" /\ op.at = "copied" /\ op.ep = e
    /\ op'.name = "send_packet" /\ op'.at = "configured"
    /\ ~Ready(e)'
    /\ FieldOf(configIn'[e], 0, 5) = op.buf_num
    /\ FieldOf(configIn'[e], 8, 7) = op.size

\* What the code does: the one step that changes a Ready config-in register
\* is the first store of a further send_packet for the same endpoint, which
\* clears Ready and replaces buffer id and size.  No other operation does, and
\* with a caller that sends on an endpoint only when it has no packet
\* outstanding there, none at all.
C22_OnlyAFurtherSendReplacesReady ==
    /\ [][\A e \in 0..(MaxEndpoints - 1) :
            /\ ReadyKept(e) \/ IsSendConfigure(e)
            /\ hist.strict => ReadyKept(e)]_vars
    /\ []CollectedOnlyAfterSent

\* Endpoint 0 is Ready with buffer 12; the caller has since disabled the
\* endpoint, and the register still holds Ready and buffer 12.
C22_Witness ==
    /\ op.name = "configure_in_endpoint" /\ op.ep = 0 /\ ret = 0
    /\ 0 \notin regs.endpointInEnable
    /\ hist.strict
    /\ hist.in[0] = [buf |-> 12, st |-> "sending"]
    /\ Ready(0)
    /\ FieldOf(configIn[0], 0, 5) = 12

(***************************************************************************)
(* The transfer into and out of packet buffers that hold the bytes of an   *)
(* earlier packet.                                                         *)
(***************************************************************************)
\* What every byte of the packet buffers holds before the transfer.
UsedByte == 165

\* The first and the last packet buffer and the four bytes after each.
UsedBuffers ==
    [a \in (BufferOffset(0)..(BufferOffset(1) + 3))
            \cup (BufferOffset(NumBuffers - 1)..(BufferOffset(NumBuffers) + 3))
        |-> UsedByte]

\* Byte n (0..3, least significant first) of the word w.
ByteOfWord(w, n) ==
    IF n < 2 THEN (w.lo \div Pow2(8 * n)) % 256 ELSE (w.hi \div Pow2(8 * (n - 2))) % 256

InitUsed ==
    /\ regs = ResetRegs
    /\ configIn = ResetConfigIn
    /\ avSetup = <<>> /\ avOut = <<>> /\ rxFifo = <<>>
    /\ hwCap = OpenTitanCap
    /\ op = [name |-> "none"]
    /\ ret = 0
    /\ written = <<>>
    /\ outp = NoOutp
    /\ devmem = UsedBuffers
    /\ \E p \in 0..MaxPattern :
          data = [tx |-> [k \in 0..(DataLen - 1) |-> PatternByte(p, k)],
                  rx |-> RxFill]
    /\ hist = [calls |-> 0, devmem0 |-> UsedBuffers]

SpecUsed == InitUsed /\ [][NextTransfer]_vars

\* The number of words that hold n bytes.
WordsFor(n) == (n + 3) \div 4

\* C23: a to-device transfer of 1..64 bytes stores only whole words, in
\* ascending order from the start of the buffer (the whole words of the source
\* loaded as words, then one final word made of the 1-3 trailing bytes loaded
\* as bytes); byte k of the source is byte k mod 4 of word k div 4 of the
\* buffer, least significant first, and the bytes of the final word above the
\* trailing bytes are written as zero.
C23_ToDeviceWholeWordsLittleEndian ==
    (op.name = "usbdev_transfer" /\ op.toDevice /\ op.size >= 1)
        => LET base == BufferOffset(op.buf)
               whole == op.size \div 4
               tail == op.size % 4
           IN  /\ Len(op.stores) = WordsFor(op.size)
               /\ \A i \in 1..Len(op.stores) : op.stores[i] = Access(base + 4 * (i - 1), 4)
               /\ Len(op.loads) = whole + tail
               /\ \A i \in 1..whole : op.loads[i] = Access(4 * (i - 1), 4)
               /\ \A j \in 1..tail : op.loads[whole + j] = Access(4 * whole + j - 1, 1)
               /\ \A k \in 0..(op.size - 1) :
                     /\ devmem[base + k] = data.tx[k]
                     /\ ByteOfWord(LoadWord(devmem, base + 4 * (k \div 4)), k % 4)
                            = data.tx[k]
               /\ \A a \in (base + op.size)..(base + 4 * WordsFor(op.size) - 1) :
                     devmem[a] = 0
               /\ \A a \in DOMAIN devmem :
                     (a < base \/ a >= base + 4 * WordsFor(op.size))
                         => devmem[a] = hist.devmem0[a]

\* 63 bytes to buffer 31: sixteen word stores, the last of the bytes 60..62
\* and a zero in place of the byte the buffer held.
C23_Witness ==
    /\ op.name = "usbdev_transfer" /\ op.toDevice
    /\ op.size = 63 /\ op.buf = NumBuffers - 1
    /\ Len(op.stores) = 16
    /\ devmem[BufferOffset(op.buf) + 62] = data.tx[62]
    /\ data.tx[62] \notin {0, UsedByte}
    /\ devmem[BufferOffset(op.buf) + 63] = 0
    /\ hist.devmem0[BufferOffset(op.buf) + 63] = UsedByte

\* The transfer stores to its destination only: a from-device transfer leaves
\* the packet buffers as they were.
FromDeviceKeepsBuffers ==
    (op'.name = "usbdev_transfer" /\ ~op'.toDevice) => devmem' = devmem

FromDeviceStoresSizeBytes ==
    (op.name = "usbdev_transfer" /\ ~op.toDevice /\ op.size >= 1)
        => LET base == BufferOffset(op.buf)
               whole == op.size \div 4
               tail == op.size % 4
           IN  /\ \A k \in 0..(op.size - 1) : data.rx[k] = devmem[base + k]
               /\ \A k \in op.size..(DataLen - 1) : data.rx[k] = RxFill[k]
               /\ Len(op.loads) = WordsFor(op.size)
               /\ \A i \in 1..Len(op.loads) : op.loads[i] = Access(base + 4 * (i - 1), 4)
               /\ Len(op.stores) = whole + tail
               /\ \A i \in 1..whole : op.stores[i] = Access(4 * (i - 1), 4)
               /\ \A j \in 1..tail : op.stores[whole + j] = Access(4 * whole + j - 1, 1)

\* C26: a from-device transfer of 1..64 bytes stores exactly that many bytes
\* of the caller's array (whole words, then the 1-3 trailing bytes one by one
\* out of a final word loaded whole); the bytes of the array from offset size
\* on keep their values, and no packet buffer is written.
C26_FromDeviceWritesExactlySize ==
    /\ []FromDeviceStoresSizeBytes
    /\ [][FromDeviceKeepsBuffers]_vars

\* 61 bytes from buffer 0: the final word is loaded whole, its byte 0 is
\* stored, and the array keeps its byte 61 although the word's byte 1 differs.
C26_Witness ==
    /\ op.name = "usbdev_transfer" /\ ~op.toDevice
    /\ op.size = 61 /\ op.buf = 0
    /\ op.loads[16] = Access(BufferOffset(0) + 60, 4)
    /\ op.stores[16] = Access(60, 1)
    /\ Len(op.stores) = 16
    /\ data.rx[60] = data.tx[60] /\ data.tx[60] # RxFill[60]
    /\ data.rx[61] = RxFill[61]
    /\ devmem[BufferOffset(0) + 61] # RxFill[61]

(***************************************************************************)
(* What send_packet leaves unchanged, for endpoint numbers inside and      *)
(* outside the config-in array.                                            *)
(***************************************************************************)
\* The calls of send_packet the model follows.
MaxFrameSteps == 2

\* uint8_t ep: the first and the last endpoint, the two numbers after them,
\* and the largest value.
FrameEps == {0, MaxEndpoints - 1, MaxEndpoints, MaxEndpoints + 1, 255}

\* hist.regs0, hist.configIn0, hist.devmem0: the registers and the packet
\* buffers when the last send_packet was called.
InitFrame ==
    /\ \E p \in RegPatterns :
          /\ regs = [r \in RegNames |-> p]
          /\ hist = [calls |-> 0, limit |-> MaxFrameSteps, runs |-> 1,
                     in |-> [e \in 0..(MaxEndpoints - 1) |-> NoSend],
                     regs0 |-> [r \in RegNames |-> p],
                     configIn0 |-> ResetConfigIn,
                     devmem0 |-> UsedBuffers]
    /\ configIn = ResetConfigIn
    /\ avSetup = <<>> /\ avOut = <<>> /\ rxFifo = <<>>
    /\ hwCap = OpenTitanCap
    /\ op = [name |-> "none"]
    /\ ret = 0
    /\ written = <<>>
    /\ outp = NoOutp
    /\ devmem = UsedBuffers
    /\ data = [tx |-> [k \in 0..(DataLen - 1) |-> PatternByte(1, k)], rx |-> RxFill]

FrameSend ==
    /\ hist.calls < hist.limit
    /\ \E buf_num \in {0, NumBuffers - 1}, ep \in FrameEps, size \in {0, 5} :
          /\ DoSendCopy(buf_num, ep, size)
          /\ hist' = [hist EXCEPT !.calls = @ + 1, !.regs0 = regs,
                                  !.configIn0 = configIn, !.devmem0 = devmem]

\* The hardware completes a transmission between two calls.
FrameHwCompletes == DriverIdle /\ HwCompletesSend

NextFrame ==
    \/ FrameSend
    \/ SendConfigure
    \/ SendReady
    \/ FrameHwCompletes

SpecFrame == InitFrame /\ [][NextFrame]_vars

SendDone == op.name = "send_packet" /\ op.at = "done"

\* The packet buffers differ from what they were at the call only in the
\* words of buffer buf_num that hold the size bytes.
OnlyBufferWritten ==
    \A a \in DOMAIN devmem :
        devmem[a] # hist.devmem0[a]
            => /\ a >= BufferOffset(op.buf_num)
               /\ a < BufferOffset(op.buf_num) + 4 * WordsFor(op.size)

\* C24 as stated: whatever ep is, send_packet has changed none of the
\* registers outside the config-in array, at most one config-in register, and
\* of the packet buffers only buffer buf_num (nothing when size is 0).
C24_SendChangesOnlyOneConfigIn ==
    SendDone
        => /\ regs = hist.regs0
           /\ \E e \in 0..(MaxEndpoints - 1) :
                 \A o \in 0..(MaxEndpoints - 1) \ {e} : configIn[o] = hist.configIn0[o]
           /\ OnlyBufferWritten

\* What the code does: ep is not tested.  For ep < 12 the claim holds; for
\* ep = 12..18 the two stores go to the register 4 * (ep - 12) bytes after the
\* array (outIsochronous for 12, inIsochronous for 13), which ends up holding
\* buf_num | size << 8 | Ready, and no config-in register changes; for larger
\* ep the stores go past the register block.
C24_SendStoresWhereverEpPoints ==
    SendDone
        => /\ OnlyBufferWritten
           /\ op.ep < MaxEndpoints
                 => /\ regs = hist.regs0
                    /\ configIn = [hist.configIn0 EXCEPT ![op.ep] =
                                     WithReady(ConfigInValue(op.buf_num, op.size))]
           /\ PastConfigIn(op.ep)
                 => /\ configIn = hist.configIn0
                    /\ regs = [hist.regs0 EXCEPT ![AfterConfigIn[op.ep - MaxEndpoints + 1]] =
                                 WithReady(ConfigInValue(op.buf_num, op.size))]
           /\ (op.ep >= MaxEndpoints /\ ~PastConfigIn(op.ep))
                 => /\ configIn = hist.configIn0
                    /\ regs = hist.regs0

\* send_packet(0, 12, data, 0) on the reset state: outIsochronous was 0 and
\* holds the Ready bit after the call.
C24_Witness ==
    /\ SendDone /\ op.ep = MaxEndpoints /\ op.buf_num = 0 /\ op.size = 0
    /\ hist.regs0.outIsochronous = {}
    /\ regs.outIsochronous = ReadyBit
    /\ configIn = hist.configIn0
    /\ devmem = hist.devmem0

\* The step is a call of packet_collected that returns NoCompletedSend.
CollectFails == op'.name = "packet_collected" /\ ret' = -1

\* C25 as stated: a call of packet_collected that returns NoCompletedSend has
\* written no register and has left ep and buf_num as they were.
C25_FailedCollectLeavesOutputs ==
    [][CollectFails
         => /\ regs' = regs /\ configIn' = configIn /\ written' = <<>>
            /\ outp' = outp]_vars

\* What the code does: ep is the loop variable.  packet_collected returns
\* NoCompletedSend exactly when no in-sent bit of the twelve endpoints is set;
\* it has then written no register and left buf_num as it was, but ep is
\* MaxEndpoints, whatever it was before.
C25_FailedCollectLeavesEpAtMaxEndpoints ==
    [][op'.name = "packet_collected"
         => /\ ret' = -1 <=> regs.inSent \cap (0..(MaxEndpoints - 1)) = {}
            /\ ret' = -1
                  => /\ regs' = regs /\ configIn' = configIn /\ written' = <<>>
                     /\ outp' = [outp EXCEPT !.ep = MaxEndpoints]]_vars

\* After the packet of endpoint 11 in buffer 31 was collected, a further call
\* finds nothing: buf_num is still 31 and ep is 12, not 11.
C25_Witness ==
    /\ op.name = "packet_collected" /\ ret = -1
    /\ op.sent0 = {}
    /\ outp.buf_num = NumBuffers - 1
    /\ outp.ep = MaxEndpoints
    /\ hist.in[MaxEndpoints - 1] = [buf |-> NumBuffers - 1, st |-> "idle"]

=============================================================================
